---- MODULE Spec2Model ----
(***************************************************************************)
(* Phoenix-vNext dynamic cardinality observer.                             *)
(*                                                                         *)
(* Model of PhoenixCardinalityObserver                                     *)
(* (phoenix-bench/legacy/phoenix-cardinality-observer.py; the class of the *)
(* same name in phoenix-bench/phoenix-toolkit.py is the same code): the    *)
(* estimator get_cardinality_metrics, the classifier                       *)
(* determine_optimization_mode, the decision generate_control_signal, the  *)
(* store write_control_signal and the loop run_observer.                   *)
(*                                                                         *)
(* Thresholds are floats in the code; the model draws integer-valued       *)
(* thresholds, for which the float expression int(b + (p / r) * k) equals  *)
(* b + (p * k) \div r on every input of the model (p, r > 0).              *)
(***************************************************************************)
EXTENDS Integers, Sequences, FiniteSets, TLC

VARIABLES
    thresholds,              \* self.thresholds
    current_mode,            \* self.current_mode
    last_cardinality_count,  \* self.last_cardinality_count
    mode_change_count,       \* self.mode_change_count
    running,                 \* self.running
    pc,                      \* position of run_observer
    cardinality_data,        \* run_observer's local: None or the sample
    control_signal,          \* run_observer's local: None or the signal
    control_file,            \* content of control_file_path (None: no file)
    control_backup,          \* content of control_file_path + ".backup"
    write_success,           \* run_observer's local `success`
    classification,          \* result of the last direct classifier call
    cycle_start,             \* observation: loop state and files at the poll
    decisions,               \* observation: the last two decisions, newest last
    mode_transitions,        \* observation: times current_mode changed value
    write_outcome,           \* observation: how the iteration's write ended
    unconfirmed,             \* observation: the last emitted signal's write failed
    stop_called,             \* observation: stop() has been called
    steps,                   \* observation: steps since the last while test
    now,                     \* the wall clock, in ticks
    emissions,               \* observation: when the last two signals were built
    metrics_text,            \* get_cardinality_metrics' local: None or response.text
    audit_dir                \* the audit directory: component audit files and summary.yaml

vars == <<thresholds, current_mode, last_cardinality_count, mode_change_count,
          running, pc, cardinality_data, control_signal, control_file,
          control_backup, write_success, classification, cycle_start,
          decisions, mode_transitions, write_outcome, unconfirmed,
          stop_called, steps, now, emissions, metrics_text, audit_dir>>

(***************************************************************************)
(* Bounds of the model.                                                    *)
(***************************************************************************)
\* The classifier is exercised on every count in 0..MaxCount.
MaxCount == 600
\* The loop stops polling once mode_change_count has reached this cap.
MaxModeChanges == 2
\* The wall clock runs over the ticks 0..MaxClock.
MaxClock == 3
\* Ticks of the wall clock in one second.
TicksPerSecond == 2
\* A scraped text has at most this many lines.
MaxLines == 3

(***************************************************************************)
(* Values.                                                                 *)
(***************************************************************************)
None == <<>>
Some(x) == <<x>>
IsSome(o) == o # None
Get(o) == o[1]

Modes == {"moderate", "adaptive", "ultra"}

\* Severity order of the modes (spec: "totally ordered by severity").
Severity(mode) ==
    CASE mode = "moderate" -> 0
      [] mode = "adaptive" -> 1
      [] mode = "ultra" -> 2

DefaultThresholds == [moderate |-> 300, adaptive |-> 375, ultra |-> 450]

\* Thresholds that tell the counts 0..3 of a short scrape apart.
ScrapeThresholds == [moderate |-> 1, adaptive |-> 2, ultra |-> 3]

\* Threshold triples the command line can pass; nothing in main() orders them.
ThresholdSets ==
    { DefaultThresholds,
      ScrapeThresholds,
      [moderate |-> -1, adaptive |-> 60, ultra |-> 120],
      [moderate |-> 100, adaptive |-> 100, ultra |-> 100],
      [moderate |-> 120, adaptive |-> 60, ultra |-> 0] }

\* The triples the loop is run with: the default, one whose moderate
\* threshold is negative, and one that is misordered.
LoopThresholdSets ==
    { DefaultThresholds,
      [moderate |-> -1, adaptive |-> 60, ultra |-> 120],
      [moderate |-> 120, adaptive |-> 60, ultra |-> 0] }

Ordered(th) == th.moderate < th.adaptive /\ th.adaptive < th.ultra

\* Counts a scrape of the running loop can report.
SampleCounts == {0, 50, 51, 301, 376}

Abs(x) == IF x < 0 THEN -x ELSE x
Min(a, b) == IF a <= b THEN a ELSE b
Max(a, b) == IF a >= b THEN a ELSE b

\* Nearest integer of num / den (num >= 0, den > 0), ties to even: round().
RoundNearest(num, den) ==
    LET q == num \div den
        rem == num % den
    IN  IF 2 * rem < den THEN q
        ELSE IF 2 * rem > den THEN q + 1
        ELSE IF q % 2 = 0 THEN q ELSE q + 1

\* Variant of IntScale: the scaled value rounded up instead of truncated.
IntScale_ceil(base, num, den, scale) ==
    base + ((num * scale + den - 1) \div den)

\* int(base + (num / den) * scale) for num > 0, den > 0: truncation.
IntScale(base, num, den, scale) == base + ((num * scale) \div den)

(***************************************************************************)
(* get_cardinality_metrics: the scraped text and its parsing.              *)
(*                                                                         *)
(* A text is a sequence of characters; the namespace prefix 'phoenix_' is  *)
(* one character of the model.                                             *)
(***************************************************************************)
Namespace == "phoenix_"
NewLine == "\n"

\* Lines a scrape can hold: two plain series, one series with its two labels
\* in either order, a comment, a blank line, a series of another namespace,
\* and a series whose label block has no closing brace.
LinePlainA == <<Namespace, "a", " ", "1">>
LinePlainB == <<Namespace, "b", " ", "1">>
LineLabelsXY == <<Namespace, "a", "{", "x", ",", "y", "}", " ", "1">>
LineLabelsYX == <<Namespace, "a", "{", "y", ",", "x", "}", " ", "1">>
LineComment == <<"#", " ", Namespace, "a">>
LineBlank == <<>>
LineOther == <<"u", "p", " ", "1">>
LineUnclosed == <<Namespace, "a", "{", "x", " ", "1">>

SampleLines ==
    { LinePlainA, LinePlainB, LineLabelsXY, LineLabelsYX, LineComment,
      LineBlank, LineOther, LineUnclosed }

\* '\n'.join(lines)
RECURSIVE JoinLines(_)
JoinLines(lines) ==
    IF lines = <<>> THEN <<>>
    ELSE IF Len(lines) = 1 THEN lines[1]
    ELSE lines[1] \o <<NewLine>> \o JoinLines(Tail(lines))

\* The texts the collector answers with: up to MaxLines of SampleLines.
SampleTexts ==
    { JoinLines(lines) : lines \in UNION { [1..n -> SampleLines] : n \in 0..MaxLines } }

Contains(s, ch) == \E i \in 1..Len(s) : s[i] = ch

\* s.split(sep): the pieces of s between the occurrences of sep.
RECURSIVE Split(_, _)
Split(s, sep) ==
    IF ~Contains(s, sep) THEN <<s>>
    ELSE LET i == CHOOSE i \in 1..Len(s) :
                      s[i] = sep /\ \A j \in 1..(i - 1) : s[j] # sep
         IN  <<SubSeq(s, 1, i - 1)>> \o Split(SubSeq(s, i + 1, Len(s)), sep)

\* pieces[index], Python's index from 0: None stands for the IndexError.
Item(pieces, index) ==
    IF index + 1 \in DOMAIN pieces THEN Some(pieces[index + 1]) ELSE None

\* line.startswith('phoenix_') and not line.startswith('#')
IsPhoenixLine(line) ==
    /\ Len(line) >= 1
    /\ line[1] = Namespace
    /\ line[1] # "#"

\* Variant of SeriesKey: the labels are left out of the key.
SeriesKey_name_only(line) ==
    IF Contains(line, "{")
    THEN Item(Split(line, "{"), 0)
    ELSE Item(Split(line, " "), 0)

\* Variant of SeriesKey: the labels are what stands before the closing
\* brace, and a line without one raises.
SeriesKey_strict(line) ==
    IF Contains(line, "{")
    THEN LET metric_name == Item(Split(line, "{"), 0)
             rest == Item(Split(line, "{"), 1)
         IN  IF rest = None \/ Item(Split(Get(rest), "}"), 1) = None THEN None
             ELSE Some(Get(metric_name) \o <<"#">> \o Get(Item(Split(Get(rest), "}"), 0)))
    ELSE Item(Split(line, " "), 0)

\* The series key of one line of phoenix_metrics (None: an exception).
SeriesKey(line) ==
    IF Contains(line, "{")
    THEN LET metric_name == Item(Split(line, "{"), 0)
             rest == Item(Split(line, "{"), 1)
             labels_part == IF rest = None THEN None
                            ELSE Item(Split(Get(rest), "}"), 0)
         IN  IF metric_name = None \/ labels_part = None THEN None
             ELSE Some(Get(metric_name) \o <<"#">> \o Get(labels_part))
    ELSE Item(Split(line, " "), 0)

\* phoenix_metrics: the lines of the text that are counted.
PhoenixMetrics(text) == SelectSeq(Split(text, NewLine), IsPhoenixLine)

\* The body of get_cardinality_metrics on response.text: the sample, or None
\* when an exception was caught. (Of the sample, cardinality_count and
\* total_metrics; timestamp and sample_metrics are carried along unread.)
get_cardinality_metrics(text) ==
    LET phoenix_metrics == PhoenixMetrics(text)
        keys == { SeriesKey(phoenix_metrics[i]) : i \in 1..Len(phoenix_metrics) }
        unique_series == { Get(k) : k \in keys \ {None} }
    IN  IF None \in keys THEN None
        ELSE Some([cardinality_count |-> Cardinality(unique_series),
                   total_metrics |-> Len(phoenix_metrics)])

(***************************************************************************)
(* determine_optimization_mode                                             *)
(***************************************************************************)
ModerateLevel == 0
AdaptiveBase == 26
AdaptiveSpan == 49
AdaptiveCap == 75
UltraBase == 76
UltraSpan == 24
UltraCap == 100

\* Variant of AdaptiveLevel: round() in place of int().
AdaptiveLevel_rounded(th, cardinality_count) ==
    LET range_size == th.adaptive - th.moderate
        position == cardinality_count - th.moderate
        opt_level == AdaptiveBase + RoundNearest(position * AdaptiveSpan, range_size)
    IN  Min(AdaptiveCap, Max(AdaptiveBase, opt_level))

\* Variant of AdaptiveLevel: the position measured from the adaptive threshold.
AdaptiveLevel_inverted(th, cardinality_count) ==
    LET range_size == th.adaptive - th.moderate
        position == th.adaptive - cardinality_count
        opt_level == IntScale(AdaptiveBase, position, range_size, AdaptiveSpan)
    IN  Min(AdaptiveCap, Max(AdaptiveBase, opt_level))

\* Variant of AdaptiveLevel: scaled over 0..75, without the base of 26.
AdaptiveLevel_from_zero(th, cardinality_count) ==
    LET range_size == th.adaptive - th.moderate
        position == cardinality_count - th.moderate
    IN  Min(AdaptiveCap, IntScale(0, position, range_size, AdaptiveCap))

\* The elif branch: count <= thresholds["adaptive"] (and count > moderate).
AdaptiveLevel(th, cardinality_count) ==
    LET range_size == th.adaptive - th.moderate
        position == cardinality_count - th.moderate
        opt_level == IntScale(AdaptiveBase, position, range_size, AdaptiveSpan)
    IN  Min(AdaptiveCap, Max(AdaptiveBase, opt_level))

\* Variant of UltraLevel: round() in place of int().
UltraLevel_rounded(th, cardinality_count) ==
    LET excess == cardinality_count - th.adaptive
        max_excess == th.ultra - th.adaptive
    IN  IF excess >= max_excess
        THEN UltraCap
        ELSE Min(UltraCap,
                 Max(UltraBase,
                     UltraBase + RoundNearest(excess * UltraSpan, max_excess)))

\* The else branch: count > thresholds["adaptive"].
UltraLevel(th, cardinality_count) ==
    LET excess == cardinality_count - th.adaptive
        max_excess == th.ultra - th.adaptive
    IN  IF excess >= max_excess
        THEN UltraCap
        ELSE Min(UltraCap,
                 Max(UltraBase, IntScale(UltraBase, excess, max_excess, UltraSpan)))

\* Variant of Classify: the adaptive threshold taken as an exclusive bound.
Classify_exclusive(th, cardinality_count) ==
    IF cardinality_count <= th.moderate
    THEN [mode |-> "moderate", level |-> ModerateLevel]
    ELSE IF cardinality_count < th.adaptive
         THEN [mode |-> "adaptive", level |-> AdaptiveLevel(th, cardinality_count)]
         ELSE [mode |-> "ultra", level |-> UltraLevel(th, cardinality_count)]

Classify(th, cardinality_count) ==
    IF cardinality_count <= th.moderate
    THEN [mode |-> "moderate", level |-> ModerateLevel]
    ELSE IF cardinality_count <= th.adaptive
         THEN [mode |-> "adaptive", level |-> AdaptiveLevel(th, cardinality_count)]
         ELSE [mode |-> "ultra", level |-> UltraLevel(th, cardinality_count)]

determine_optimization_mode(cardinality_count) ==
    Classify(thresholds, cardinality_count)

(***************************************************************************)
(* The thresholds as main() parses them: argparse type=float accepts any    *)
(* float literal, "nan", "inf" and "-inf" included.  A float is a fraction  *)
(* num/den, or one of the three special values.                             *)
(***************************************************************************)
F(n) == [k |-> "fin", num |-> n, den |-> 1]
NaN == [k |-> "nan", num |-> 0, den |-> 1]
PosInf == [k |-> "inf", num |-> 0, den |-> 1]
NegInf == [k |-> "ninf", num |-> 0, den |-> 1]
\* The result of a float division by zero, which raises ZeroDivisionError.
ZeroDiv == [k |-> "zerodiv", num |-> 0, den |-> 1]

IsFinite(x) == x.k = "fin"
Poisoned(a, b) == a.k = "zerodiv" \/ b.k = "zerodiv"

\* a <= b on floats: False when either is nan.
FLe(a, b) ==
    IF a.k = "nan" \/ b.k = "nan" THEN FALSE
    ELSE IF a.k = "ninf" \/ b.k = "inf" THEN TRUE
    ELSE IF a.k = "inf" \/ b.k = "ninf" THEN FALSE
    ELSE a.num * b.den <= b.num * a.den

FNeg(a) ==
    CASE a.k = "inf" -> NegInf
      [] a.k = "ninf" -> PosInf
      [] a.k = "fin" -> [a EXCEPT !.num = -a.num]
      [] OTHER -> a

FAdd(a, b) ==
    IF Poisoned(a, b) THEN ZeroDiv
    ELSE IF a.k = "nan" \/ b.k = "nan" THEN NaN
    ELSE IF a.k = "fin" /\ b.k = "fin"
         THEN [k |-> "fin", num |-> a.num * b.den + b.num * a.den,
               den |-> a.den * b.den]
    ELSE IF a.k = "fin" THEN b
    ELSE IF b.k = "fin" \/ a.k = b.k THEN a
    ELSE NaN

FSub(a, b) == FAdd(a, FNeg(b))

\* a * c for an integer c > 0.
FScale(a, c) == IF a.k = "fin" THEN [a EXCEPT !.num = a.num * c] ELSE a

\* a / b: a finite b of 0 raises, inf / inf is nan, finite / inf is 0.
FDiv(a, b) ==
    IF Poisoned(a, b) THEN ZeroDiv
    ELSE IF b.k = "fin" /\ b.num = 0 THEN ZeroDiv
    ELSE IF a.k = "nan" \/ b.k = "nan" THEN NaN
    ELSE IF a.k = "fin" /\ b.k = "fin"
         THEN IF b.num > 0
              THEN [k |-> "fin", num |-> a.num * b.den, den |-> a.den * b.num]
              ELSE [k |-> "fin", num |-> -(a.num * b.den), den |-> a.den * (-b.num)]
    ELSE IF a.k = "fin" THEN F(0)
    ELSE IF b.k # "fin" THEN NaN
    ELSE IF b.num > 0 THEN a ELSE FNeg(a)

Returns(value) == [raised |-> "", value |-> Some(value)]
Raises(exception) == [raised |-> exception, value |-> None]

\* int(x): truncation; nan, the infinities and a failed division raise.
FInt(x) ==
    CASE x.k = "fin" ->
             Returns(IF x.num >= 0 THEN x.num \div x.den
                                   ELSE -((-x.num) \div x.den))
      [] x.k = "nan" -> Raises("ValueError")
      [] x.k = "zerodiv" -> Raises("ZeroDivisionError")
      [] OTHER -> Raises("OverflowError")

\* min(cap, max(base, opt_level)) behind an int() that may have raised.
Clamped(base, cap, opt_level) ==
    IF opt_level.raised # ""
    THEN opt_level
    ELSE Returns(Min(cap, Max(base, Get(opt_level.value))))

\* int(base + (num / den) * span), clamped to base..cap.
FloatLevel(base, span, cap, num, den) ==
    Clamped(base, cap, FInt(FAdd(F(base), FScale(FDiv(num, den), span))))

\* determine_optimization_mode on float thresholds th and an integer count.
FloatClassify(th, cardinality_count) ==
    LET count == F(cardinality_count)
        WithMode(mode, level) ==
            IF level.raised # ""
            THEN level
            ELSE Returns([mode |-> mode, level |-> Get(level.value)])
    IN  IF FLe(count, th.moderate)
        THEN Returns([mode |-> "moderate", level |-> ModerateLevel])
        ELSE IF FLe(count, th.adaptive)
             THEN WithMode("adaptive",
                           FloatLevel(AdaptiveBase, AdaptiveSpan, AdaptiveCap,
                                      FSub(count, th.moderate),
                                      FSub(th.adaptive, th.moderate)))
             ELSE LET excess == FSub(count, th.adaptive)
                      max_excess == FSub(th.ultra, th.adaptive)
                  IN  IF FLe(max_excess, excess)
                      THEN Returns([mode |-> "ultra", level |-> UltraCap])
                      ELSE WithMode("ultra",
                                    FloatLevel(UltraBase, UltraSpan, UltraCap,
                                               excess, max_excess))

AsFloats(th) ==
    [moderate |-> F(th.moderate), adaptive |-> F(th.adaptive), ultra |-> F(th.ultra)]

FiniteThresholds(th) ==
    IsFinite(th.moderate) /\ IsFinite(th.adaptive) /\ IsFinite(th.ultra)

\* Threshold triples the command line can pass, special values included.
FloatThresholdSets ==
    {AsFloats(th) : th \in ThresholdSets} \cup
    { [moderate |-> F(300), adaptive |-> F(375), ultra |-> NaN],
      [moderate |-> F(300), adaptive |-> NaN, ultra |-> F(450)],
      [moderate |-> NaN, adaptive |-> F(375), ultra |-> F(450)],
      [moderate |-> F(300), adaptive |-> F(375), ultra |-> PosInf],
      [moderate |-> F(300), adaptive |-> PosInf, ultra |-> F(450)],
      [moderate |-> NegInf, adaptive |-> F(375), ultra |-> F(450)],
      [moderate |-> F(300), adaptive |-> NegInf, ultra |-> NegInf] }

(***************************************************************************)
(* generate_control_signal                                                 *)
(***************************************************************************)
SignificantChange == 50
StabilityPeriodSeconds == 300
TransitionDurationSeconds == 0

\* Variant of cardinality_change: measured against the ts_count of the
\* signal in the control file, when there is one.
cardinality_change_since_file(cardinality_count) ==
    IF IsSome(control_file) /\ "ts_count" \in DOMAIN Get(control_file)
    THEN Abs(cardinality_count - Get(control_file).ts_count)
    ELSE Abs(cardinality_count - last_cardinality_count)

\* Variant of cardinality_change: measured against the count of the sample
\* before, when there was one.
cardinality_change_since_sample(cardinality_count) ==
    IF decisions = <<>>
    THEN Abs(cardinality_count - last_cardinality_count)
    ELSE Abs(cardinality_count - decisions[Len(decisions)].count)

cardinality_change(cardinality_count) ==
    Abs(cardinality_count - last_cardinality_count)

\* Variant of significant_change: every change counts as significant.
significant_change_any(cardinality_count) ==
    cardinality_change(cardinality_count) > 0

\* Variant of significant_change: a change of exactly 50 counts as significant.
significant_change_inclusive(cardinality_count) ==
    cardinality_change(cardinality_count) >= SignificantChange

significant_change(cardinality_count) ==
    cardinality_change(cardinality_count) > SignificantChange

\* The condition of the outer if: a signal is generated.
ShouldEmit(cardinality_count) ==
    \/ determine_optimization_mode(cardinality_count).mode # current_mode
    \/ significant_change(cardinality_count)

\* The condition of the inner if: the emission is a mode change.
IsModeChange(cardinality_count) ==
    determine_optimization_mode(cardinality_count).mode # current_mode

\* Variant of NextModeChangeCount: counted on every emission.
NextModeChangeCount_every_emission(cardinality_count) ==
    mode_change_count + 1

\* mode_change_count after the inner if.
NextModeChangeCount(cardinality_count) ==
    IF IsModeChange(cardinality_count)
    THEN mode_change_count + 1
    ELSE mode_change_count

Reason(cardinality_count) ==
    IF IsModeChange(cardinality_count)
    THEN [kind |-> "Mode change",
          from |-> current_mode,
          to |-> determine_optimization_mode(cardinality_count).mode,
          cardinality |-> cardinality_count]
    ELSE [kind |-> "Cardinality update",
          cardinality |-> cardinality_count,
          sign |-> "+",
          change |-> cardinality_change(cardinality_count)]

\* int(timestamp.timestamp()) of a clock reading: whole seconds.
Timestamp_negated(t) == 0 - (t \div TicksPerSecond)

Timestamp(t) == t \div TicksPerSecond

\* Variant of BuildSignal: ts_count is the count of the signal before.
BuildSignal_stale_count(cardinality_count) ==
    [mode |-> determine_optimization_mode(cardinality_count).mode,
     last_updated |-> now,
     reason |-> Reason(cardinality_count),
     ts_count |-> last_cardinality_count,
     config_version |-> Timestamp(now),
     correlation_id |-> <<"observer-", Timestamp(now)>>,
     optimization_level |-> determine_optimization_mode(cardinality_count).level,
     thresholds |-> thresholds,
     previous_mode |-> current_mode,
     transition_timestamp |-> now,
     unique_time_series |-> cardinality_count,
     reduction_potential |-> Max(0, cardinality_count - thresholds.moderate),
     transition_duration_seconds |-> TransitionDurationSeconds,
     stability_period_seconds |-> StabilityPeriodSeconds,
     mode_changes_total |-> NextModeChangeCount(cardinality_count)]

\* Variant of BuildSignal: built after "Update internal state", so that
\* previous_mode is the new mode.
BuildSignal_after_update(cardinality_count) ==
    [mode |-> determine_optimization_mode(cardinality_count).mode,
     last_updated |-> now,
     reason |-> Reason(cardinality_count),
     ts_count |-> cardinality_count,
     config_version |-> Timestamp(now),
     correlation_id |-> <<"observer-", Timestamp(now)>>,
     optimization_level |-> determine_optimization_mode(cardinality_count).level,
     thresholds |-> thresholds,
     previous_mode |-> determine_optimization_mode(cardinality_count).mode,
     transition_timestamp |-> now,
     unique_time_series |-> cardinality_count,
     reduction_potential |-> Max(0, cardinality_count - thresholds.moderate),
     transition_duration_seconds |-> TransitionDurationSeconds,
     stability_period_seconds |-> StabilityPeriodSeconds,
     mode_changes_total |-> NextModeChangeCount(cardinality_count)]

\* The dict built when a signal is generated; timestamp = datetime.now(...)
\* is the clock reading `now`. Of observer_metadata, the two entries computed
\* from the count.
BuildSignal(cardinality_count) ==
    [mode |-> determine_optimization_mode(cardinality_count).mode,
     last_updated |-> now,
     reason |-> Reason(cardinality_count),
     ts_count |-> cardinality_count,
     config_version |-> Timestamp(now),
     correlation_id |-> <<"observer-", Timestamp(now)>>,
     optimization_level |-> determine_optimization_mode(cardinality_count).level,
     thresholds |-> thresholds,
     previous_mode |-> current_mode,
     transition_timestamp |-> now,
     unique_time_series |-> cardinality_count,
     reduction_potential |-> Max(0, cardinality_count - thresholds.moderate),
     transition_duration_seconds |-> TransitionDurationSeconds,
     stability_period_seconds |-> StabilityPeriodSeconds,
     mode_changes_total |-> NextModeChangeCount(cardinality_count)]

\* Variant of generate_control_signal: "Update internal state" leaves
\* current_mode as it was.
generate_control_signal_count_only(cardinality_count) ==
    IF ShouldEmit(cardinality_count)
    THEN /\ control_signal' = Some(BuildSignal(cardinality_count))
         /\ mode_change_count' = NextModeChangeCount(cardinality_count)
         /\ last_cardinality_count' = cardinality_count
         /\ UNCHANGED current_mode
    ELSE /\ control_signal' = None
         /\ UNCHANGED <<current_mode, last_cardinality_count, mode_change_count>>

\* Variant of generate_control_signal: last_cardinality_count follows every
\* sample, also when no signal is built.
generate_control_signal_tracking(cardinality_count) ==
    IF ShouldEmit(cardinality_count)
    THEN /\ control_signal' = Some(BuildSignal(cardinality_count))
         /\ mode_change_count' = NextModeChangeCount(cardinality_count)
         /\ current_mode' = determine_optimization_mode(cardinality_count).mode
         /\ last_cardinality_count' = cardinality_count
    ELSE /\ control_signal' = None
         /\ last_cardinality_count' = cardinality_count
         /\ UNCHANGED <<current_mode, mode_change_count>>

\* Variant of generate_control_signal: "Update internal state" leaves
\* last_cardinality_count as it was.
generate_control_signal_stale(cardinality_count) ==
    IF ShouldEmit(cardinality_count)
    THEN /\ control_signal' = Some(BuildSignal(cardinality_count))
         /\ mode_change_count' = NextModeChangeCount(cardinality_count)
         /\ current_mode' = determine_optimization_mode(cardinality_count).mode
         /\ UNCHANGED last_cardinality_count
    ELSE /\ control_signal' = None
         /\ UNCHANGED <<current_mode, last_cardinality_count, mode_change_count>>

\* Variant of generate_control_signal: the signal is built and returned, the
\* loop state is left for a later commit.
generate_control_signal_deferred(cardinality_count) ==
    IF ShouldEmit(cardinality_count)
    THEN /\ control_signal' = Some(BuildSignal(cardinality_count))
         /\ UNCHANGED <<current_mode, last_cardinality_count, mode_change_count>>
    ELSE /\ control_signal' = None
         /\ UNCHANGED <<current_mode, last_cardinality_count, mode_change_count>>

\* One call of generate_control_signal: the returned value goes to
\* control_signal, the loop state is updated only when a signal is built.
generate_control_signal(cardinality_count) ==
    IF ShouldEmit(cardinality_count)
    THEN /\ control_signal' = Some(BuildSignal(cardinality_count))
         /\ mode_change_count' = NextModeChangeCount(cardinality_count)
         /\ current_mode' = determine_optimization_mode(cardinality_count).mode
         /\ last_cardinality_count' = cardinality_count
    ELSE /\ control_signal' = None
         /\ UNCHANGED <<current_mode, last_cardinality_count, mode_change_count>>

(***************************************************************************)
(* write_control_signal                                                    *)
(***************************************************************************)
\* Content of a file that was opened for writing and not completely written.
Truncated == [truncated |-> TRUE]

\* How a call of write_control_signal ends: with return True, or with the
\* exception that its try block caught at one of four places.
WriteOutcomes ==
    {"written", "backup_open_fails", "backup_copy_fails", "open_fails", "dump_fails"}

\* The leaves of the signal dict in the order in which the dict literal of
\* generate_control_signal lists them (thresholds, state and
\* observer_metadata are nested maps; their leaves follow in their order).
FieldOrder ==
    <<"mode", "last_updated", "reason", "ts_count", "config_version",
      "correlation_id", "optimization_level",
      "moderate", "adaptive", "ultra",
      "previous_mode", "transition_timestamp", "transition_duration_seconds",
      "stability_period_seconds", "mode_changes_total",
      "unique_time_series", "reduction_potential">>

\* The same leaves with the keys of every map in alphabetical order.
FieldOrder_sorted ==
    <<"config_version", "correlation_id", "last_updated", "mode",
      "unique_time_series", "reduction_potential",
      "optimization_level", "reason",
      "mode_changes_total", "previous_mode", "stability_period_seconds",
      "transition_duration_seconds", "transition_timestamp",
      "adaptive", "moderate", "ultra", "ts_count">>

\* The value of a leaf of the signal.
Leaf(signal, field) ==
    IF field \in {"moderate", "adaptive", "ultra"}
    THEN signal.thresholds[field]
    ELSE signal[field]

\* The Python type of the value of a leaf: the thresholds are floats, the
\* counts, levels and versions ints, the rest strings.
PythonType(field) ==
    IF field \in {"moderate", "adaptive", "ultra"} THEN "float"
    ELSE IF field \in {"ts_count", "config_version", "optimization_level",
                       "transition_duration_seconds",
                       "stability_period_seconds", "mode_changes_total",
                       "unique_time_series"}
         THEN "int"
         ELSE "str"

\* What the text of a string leaf would be read as if it stood unquoted in
\* the document: the two isoformat() strings have the form of a YAML
\* timestamp, the other strings are read as strings.
PlainReading(field) ==
    IF field \in {"last_updated", "transition_timestamp"} THEN "timestamp"
    ELSE "str"

\* The text of the leaf cannot stand unquoted: the reason holds ': ' and a
\* character outside ASCII.
HasIndicators(field) == field = "reason"

\* Variant of Represent: every scalar is written unquoted.
Represent_plain(field, value) ==
    [style |-> "plain",
     reading |-> IF PythonType(field) = "str" THEN PlainReading(field)
                 ELSE PythonType(field),
     text |-> value]

\* The scalar node yaml.dump writes for a leaf: ints and floats unquoted;
\* a string unquoted only if it is read back as a string, quoted otherwise.
Represent(field, value) ==
    IF PythonType(field) # "str"
    THEN [style |-> "plain", reading |-> PythonType(field), text |-> value]
    ELSE IF PlainReading(field) = "str" /\ ~HasIndicators(field)
         THEN [style |-> "plain", reading |-> "str", text |-> value]
         ELSE [style |-> "quoted", reading |-> PlainReading(field), text |-> value]

\* Variant of YamlDump: sort_keys left at its default.
YamlDump_sorted(signal) ==
    [i \in 1..Len(FieldOrder_sorted) |->
        [key |-> FieldOrder_sorted[i],
         node |-> Represent(FieldOrder_sorted[i], Leaf(signal, FieldOrder_sorted[i]))]]

\* yaml.dump(control_signal, f, default_flow_style=False, sort_keys=False):
\* the document, a block mapping with the leaves in the order of the dict.
YamlDump(signal) ==
    [i \in 1..Len(FieldOrder) |->
        [key |-> FieldOrder[i],
         node |-> Represent(FieldOrder[i], Leaf(signal, FieldOrder[i]))]]

\* A reader's load of a document: a quoted scalar is a string, an unquoted
\* one is what its text reads as.
YamlLoad(document) ==
    [i \in 1..Len(document) |->
        [key |-> document[i].key,
         type |-> IF document[i].node.style = "quoted" THEN "str"
                  ELSE document[i].node.reading,
         value |-> document[i].node.text]]

\* Variant of BackupAfterCopy: the copy is left out.
BackupAfterCopy_skipped == control_backup

\* The backup file after the "Create backup" step has run to its end.
BackupAfterCopy == IF IsSome(control_file) THEN control_file ELSE control_backup

\* Variant of WriteReturns: without the except clause, the exception of a
\* failed write leaves run_observer.
WriteReturns_raises(outcome) ==
    /\ write_success' = IF outcome = "written" THEN Some(TRUE) ELSE None
    /\ write_outcome' = Some(outcome)
    /\ unconfirmed' = (outcome # "written")
    /\ pc' = IF outcome = "written" THEN "analysis" ELSE "raised"

\* return True / return False of write_control_signal, back in run_observer.
WriteReturns(outcome) ==
    /\ write_success' = Some(outcome = "written")
    /\ write_outcome' = Some(outcome)
    /\ unconfirmed' = (outcome # "written")
    /\ pc' = "analysis"

\* write_control_signal continues with its next statement.
WriteContinues(next_pc) ==
    /\ pc' = next_pc
    /\ UNCHANGED <<write_success, write_outcome, unconfirmed>>

(***************************************************************************)
(* run_observer                                                            *)
(***************************************************************************)
LoopState ==
    [current_mode |-> current_mode,
     last_cardinality_count |-> last_cardinality_count,
     mode_change_count |-> mode_change_count,
     control_file |-> control_file,
     control_backup |-> control_backup]

\* Observation of a decision: how often current_mode changed value, the last
\* two decisions with the counts they were taken on, and the config_version
\* and clock reading of the last two signals built.
Observe ==
    /\ mode_transitions' =
           mode_transitions + (IF current_mode' # current_mode THEN 1 ELSE 0)
    /\ decisions' =
           (IF decisions = <<>> THEN <<>> ELSE <<decisions[Len(decisions)]>>)
           \o <<[count |-> Get(cardinality_data').cardinality_count,
                 emitted |-> IsSome(control_signal')]>>
    /\ emissions' =
           IF IsSome(control_signal')
           THEN (IF emissions = <<>> THEN <<>> ELSE <<emissions[Len(emissions)]>>)
                \o <<[config_version |-> Get(control_signal').config_version,
                      at |-> now]>>
           ELSE emissions

\* The steps of the iteration so far grow by `names`.
Step(names) == steps' = steps \o names

\* The state of the observer object and of its files.
observer_state ==
    <<thresholds, current_mode, last_cardinality_count, mode_change_count,
      control_file, control_backup, mode_transitions, decisions>>

\* The locals of run_observer.
locals == <<cardinality_data, control_signal, write_success, write_outcome,
            classification, cycle_start>>

\* main(): observer.run_observer(args.interval); self.running = True.
RunObserver ==
    /\ pc = "start"
    /\ running' = TRUE
    /\ pc' = "while"
    /\ UNCHANGED <<observer_state, locals, unconfirmed, stop_called,
                   now, emissions, metrics_text, audit_dir, steps>>

\* while self.running
WhileTest ==
    /\ pc = "while"
    /\ pc' = IF running THEN "poll" ELSE "stopped"
    /\ steps' = <<>>
    /\ UNCHANGED <<observer_state, locals, running, unconfirmed, stop_called,
                   now, emissions, metrics_text, audit_dir>>

\* get_cardinality_metrics returns a sample.
PollSucceeds(count) ==
    /\ pc = "poll"
    /\ mode_change_count < MaxModeChanges
    /\ cardinality_data' = Some([cardinality_count |-> count])
    /\ cycle_start' = Some(LoopState)
    /\ pc' = "generate"
    /\ Step(<<"poll">>)
    /\ UNCHANGED <<observer_state, running, control_signal, write_success,
                   write_outcome, classification, unconfirmed, stop_called,
                   now, emissions, metrics_text, audit_dir>>

\* Variant of PollFails: a failed poll puts last_cardinality_count back to 0.
PollFails_resets ==
    /\ pc = "poll"
    /\ mode_change_count < MaxModeChanges
    /\ cardinality_data' = None
    /\ cycle_start' = Some(LoopState)
    /\ last_cardinality_count' = 0
    /\ pc' = "sleep"
    /\ Step(<<"poll">>)
    /\ UNCHANGED <<thresholds, current_mode, mode_change_count, control_file,
                   control_backup, mode_transitions, decisions, running,
                   control_signal, write_success, write_outcome, classification,
                   unconfirmed, stop_called, now, emissions, metrics_text,
                   audit_dir>>

\* Variant of PollFails: `continue` without the sleep before it.
PollFails_no_sleep ==
    /\ pc = "poll"
    /\ mode_change_count < MaxModeChanges
    /\ cardinality_data' = None
    /\ cycle_start' = None
    /\ pc' = "while"
    /\ Step(<<"poll">>)
    /\ UNCHANGED <<observer_state, running, control_signal, write_success,
                   write_outcome, classification, unconfirmed, stop_called,
                   now, emissions, metrics_text, audit_dir>>

\* get_cardinality_metrics catches an exception and returns None:
\* `if not cardinality_data` goes to the sleep and the next iteration.
PollFails ==
    /\ pc = "poll"
    /\ mode_change_count < MaxModeChanges
    /\ cardinality_data' = None
    /\ cycle_start' = Some(LoopState)
    /\ pc' = "sleep"
    /\ Step(<<"poll">>)
    /\ UNCHANGED <<observer_state, running, control_signal, write_success,
                   write_outcome, classification, unconfirmed, stop_called,
                   now, emissions, metrics_text, audit_dir>>

\* control_signal = self.generate_control_signal(cardinality_data): the
\* classifier call, then the decision.
Generate ==
    /\ pc = "generate"
    /\ generate_control_signal(Get(cardinality_data).cardinality_count)
    /\ pc' = IF IsSome(control_signal') THEN "write" ELSE "analysis"
    /\ Step(<<"classify", "decide">>)
    /\ UNCHANGED <<thresholds, running, cardinality_data, control_file,
                   control_backup, write_success, write_outcome, classification,
                   cycle_start, unconfirmed, stop_called, now, metrics_text,
                   audit_dir>>
    /\ Observe

\* write_control_signal, "Create backup": nothing to do without a control
\* file; otherwise the copy is made, or opening a file raises, or the copy
\* raises after the backup was opened for writing.
WriteBackup ==
    /\ pc = "write"
    /\ Step(<<"persist">>)
    /\ \/ /\ control_backup' = BackupAfterCopy
          /\ WriteContinues("write_open")
       \/ /\ IsSome(control_file)
          /\ UNCHANGED control_backup
          /\ WriteReturns("backup_open_fails")
       \/ /\ IsSome(control_file)
          /\ control_backup' = Some(Truncated)
          /\ WriteReturns("backup_copy_fails")
    /\ UNCHANGED <<thresholds, current_mode, last_cardinality_count,
                   mode_change_count, control_file, mode_transitions, decisions,
                   running, cardinality_data, control_signal, classification,
                   cycle_start, stop_called, now, emissions, metrics_text,
                   audit_dir>>

\* write_control_signal, open(self.control_file_path, 'w'): the file is
\* created or emptied, or the open raises.
WriteOpen ==
    /\ pc = "write_open"
    /\ \/ /\ control_file' = Some(Truncated)
          /\ WriteContinues("write_dump")
       \/ /\ UNCHANGED control_file
          /\ WriteReturns("open_fails")
    /\ UNCHANGED <<thresholds, current_mode, last_cardinality_count,
                   mode_change_count, control_backup, mode_transitions,
                   decisions, running, cardinality_data, control_signal,
                   classification, cycle_start, stop_called,
                   now, emissions, metrics_text, audit_dir, steps>>

\* write_control_signal, yaml.dump and the close of the file: the signal is
\* in the file, or the dump raises and leaves the file incomplete.
WriteDump ==
    /\ pc = "write_dump"
    /\ \/ /\ control_file' = Some(Get(control_signal))
          /\ WriteReturns("written")
       \/ /\ UNCHANGED control_file
          /\ WriteReturns("dump_fails")
    /\ UNCHANGED <<thresholds, current_mode, last_cardinality_count,
                   mode_change_count, control_backup, mode_transitions,
                   decisions, running, cardinality_data, control_signal,
                   classification, cycle_start, stop_called,
                   now, emissions, metrics_text, audit_dir, steps>>

\* success = self.write_control_signal(control_signal): the steps of one call.
write_control_signal == WriteBackup \/ WriteOpen \/ WriteDump

\* "Show threshold analysis": the second classifier call of the iteration.
Analysis ==
    /\ pc = "analysis"
    /\ classification' =
           Some([count |-> Get(cardinality_data).cardinality_count,
                 result |-> determine_optimization_mode(
                                Get(cardinality_data).cardinality_count)])
    /\ pc' = "sleep"
    /\ Step(<<"analysis">>)
    /\ UNCHANGED <<observer_state, running, cardinality_data, control_signal,
                   write_success, write_outcome, cycle_start, unconfirmed,
                   stop_called, now, emissions, metrics_text, audit_dir>>

\* time.sleep(check_interval); the iteration's locals are dead afterwards.
Sleep ==
    /\ pc = "sleep"
    /\ pc' = "while"
    /\ cardinality_data' = None
    /\ control_signal' = None
    /\ write_success' = None
    /\ write_outcome' = None
    /\ classification' = None
    /\ cycle_start' = None
    /\ metrics_text' = None
    /\ UNCHANGED audit_dir
    /\ Step(<<"sleep">>)
    /\ UNCHANGED <<observer_state, running, unconfirmed, stop_called,
                   now, emissions>>

\* stop(), from whoever holds the observer, at any time: before run_observer
\* has begun (run_complete_demo starts it in a thread) or while it runs.
Stop ==
    /\ pc \notin {"stopped", "interrupted"}
    /\ running \/ ~stop_called
    /\ running' = FALSE
    /\ stop_called' = TRUE
    /\ UNCHANGED <<observer_state, locals, pc, unconfirmed, steps,
                   now, emissions, metrics_text, audit_dir>>

\* Ctrl-C while main() is in run_observer: KeyboardInterrupt is raised at
\* the statement being executed (no except clause of the class catches it),
\* run_observer is left, and main()'s handler calls observer.stop().
RunningPcs ==
    {"while", "poll", "generate", "write", "write_open", "write_dump",
     "analysis", "sleep"}

KeyboardInterrupt ==
    /\ pc \in RunningPcs
    /\ pc' = "interrupted"
    /\ running' = FALSE
    /\ stop_called' = TRUE
    /\ UNCHANGED <<observer_state, locals, unconfirmed, steps,
                   now, emissions, metrics_text, audit_dir>>

\* What a read of the control file by another process (the reconciler)
\* returns at this moment.
ReadControlFile ==
    IF control_file = None THEN "no_file"
    ELSE IF Get(control_file) = Truncated THEN "truncated"
    ELSE "complete"

(***************************************************************************)
(* The audit tool (audit/audit-tool.py): the audit directory holds          *)
(* summary.yaml and one file per component.  A path is the sequence of its  *)
(* segments below the audit directory; every component file ends in .yaml.  *)
(***************************************************************************)
MaxFindings == 1

\* The audit directory before `init`: no file at all.
NoAuditDir == [files |-> [p \in {} |-> None], summary |-> None]

\* discover_components: what the three globs of the project tree can find.
ProjectComponents ==
    {[name |-> "a", type |-> "processors"],
     [name |-> "a", type |-> "connectors"]}

ComponentNames == {"a", "b"}
AuditStates == {"Not Started", "In Progress", "Completed"}
Severities == {"High", "Low"}
Owners == {None, Some("o")}

\* glob.glob: "*" matches one whole path segment and never a separator.
Matches(pattern, path) ==
    /\ Len(pattern) = Len(path)
    /\ \A i \in 1..Len(pattern) : pattern[i] = "*" \/ pattern[i] = path[i]

Glob(dir, pattern) == {path \in DOMAIN dir.files : Matches(pattern, path)}

\* os.path.join(audit_dir, "components", comp["type"], f"{comp['name']}.yaml")
audit_file(comp) == <<"components", comp.type, comp.name>>

\* The data of a new component audit file.
NewAuditData(comp) ==
    [component |-> [name |-> comp.name, type |-> comp.type],
     audit_status |-> [state |-> "Not Started", owner |-> "",
                       start_date |-> None, completion_date |-> None],
     findings |-> [issues |-> <<>>, recommendations |-> 0]]

\* create_component_audit_files: files that exist are left as they are.
create_component_audit_files(dir, components) ==
    [dir EXCEPT !.files =
        [path \in DOMAIN dir.files \cup {audit_file(comp) : comp \in components} |->
            IF path \in DOMAIN dir.files
            THEN dir.files[path]
            ELSE NewAuditData(CHOOSE comp \in components : audit_file(comp) = path)]]

\* state.lower().replace(" ", "_")
StateKey(state) ==
    CASE state = "Not Started" -> "not_started"
      [] state = "In Progress" -> "in_progress"
      [] state = "Completed" -> "completed"

\* severity.lower() in ["high", "critical"]
IsPriority(severity) == severity \in {"High", "Critical"}

\* (completed / total) * 100, kept as a fraction.
Progress(status_count) ==
    IF status_count.total > 0
    THEN [num |-> status_count.completed * 100, den |-> status_count.total]
    ELSE [num |-> 0, den |-> 1]

\* The order in which a glob lists the component files.
ListingOrder ==
    <<<<"components", "connectors", "a">>, <<"components", "processors", "a">>>>

RECURSIVE PriorityIssues(_, _, _)
PriorityIssues(dir, matched, i) ==
    IF i > Len(ListingOrder)
    THEN <<>>
    ELSE (IF ListingOrder[i] \in matched
          THEN LET data == dir.files[ListingOrder[i]]
                   high == SelectSeq(data.findings.issues,
                                     LAMBDA issue : IsPriority(issue.severity))
               IN [k \in 1..Len(high) |->
                      [component |-> data.component.name,
                       severity |-> high[k].severity,
                       description |-> high[k].description]]
          ELSE <<>>)
         \o PriorityIssues(dir, matched, i + 1)

\* glob.glob(f"{audit_dir}/components/*/*/*.yaml")
SummaryGlob == <<"components", "*", "*", "*">>

\* update_summary: the summary that it saves.
update_summary(dir, clock) ==
    LET matched == Glob(dir, SummaryGlob)
        InState(key) ==
            Cardinality({path \in matched :
                            StateKey(dir.files[path].audit_status.state) = key})
        status_count == [not_started |-> InState("not_started"),
                         in_progress |-> InState("in_progress"),
                         completed |-> InState("completed"),
                         total |-> Cardinality(matched)]
    IN [dir EXCEPT !.summary =
           Some([status |-> status_count,
                 audit_progress |-> Progress(status_count),
                 priority_issues |-> PriorityIssues(dir, matched, 1),
                 last_updated |-> clock])]

\* initialize_audit_structure: summary.yaml is written anew.
initialize_audit_structure(dir, clock) ==
    [dir EXCEPT !.summary =
        Some([status |-> [not_started |-> 0, in_progress |-> 0,
                          completed |-> 0, total |-> 0],
              audit_progress |-> [num |-> 0, den |-> 1],
              priority_issues |-> <<>>,
              last_updated |-> clock])]

\* update_component_status, lines 167-183: one file's new data.
StatusUpdated(data, status, owner, clock) ==
    [data EXCEPT
        !.audit_status.state = status,
        !.audit_status.owner = IF IsSome(owner) THEN Get(owner) ELSE @,
        !.audit_status.start_date =
            IF status = "In Progress" /\ @ = None THEN Some(clock) ELSE @,
        !.audit_status.completion_date =
            IF status = "Completed" /\ @ = None THEN Some(clock) ELSE @]

\* main(): PhoenixCardinalityObserver(thresholds = ...), before run_observer.
Constructed ==
    /\ current_mode = "moderate"
    /\ last_cardinality_count = 0
    /\ mode_change_count = 0
    /\ running = FALSE
    /\ pc = "start"
    /\ cardinality_data = None
    /\ control_signal = None
    /\ control_file = None
    /\ control_backup = None
    /\ write_success = None
    /\ write_outcome = None
    /\ classification = None
    /\ cycle_start = None
    /\ decisions = <<>>
    /\ mode_transitions = 0
    /\ unconfirmed = FALSE
    /\ stop_called = FALSE
    /\ steps = <<>>
    /\ now = 0
    /\ emissions = <<>>
    /\ metrics_text = None
    /\ audit_dir = NoAuditDir

Init ==
    /\ thresholds \in ThresholdSets
    /\ Constructed

Next ==
    \/ RunObserver
    \/ WhileTest
    \/ \E count \in SampleCounts : PollSucceeds(count)
    \/ PollFails
    \/ Generate
    \/ WriteBackup
    \/ WriteOpen
    \/ WriteDump
    \/ Analysis
    \/ Sleep
    \/ Stop
    \/ KeyboardInterrupt

\* main() with one of LoopThresholdSets on its command line.
InitLoop == Init /\ thresholds \in LoopThresholdSets

Spec == InitLoop /\ [][Next]_vars

(***************************************************************************)
(* The first iteration of the loop on a scraped text: the collector        *)
(* answers with one of SampleTexts, under thresholds that tell the counts  *)
(* of these texts apart.                                                   *)
(***************************************************************************)
\* cardinality_data = self.get_cardinality_metrics(), the collector
\* answering with `text`; `if not cardinality_data` after it.
PollScrapes(text) ==
    /\ pc = "poll"
    /\ decisions = <<>>
    /\ metrics_text' = Some(text)
    /\ UNCHANGED audit_dir
    /\ cardinality_data' = get_cardinality_metrics(text)
    /\ cycle_start' = Some(LoopState)
    /\ pc' = IF IsSome(cardinality_data') THEN "generate" ELSE "sleep"
    /\ Step(<<"poll">>)
    /\ UNCHANGED <<observer_state, running, control_signal, write_success,
                   write_outcome, classification, unconfirmed, stop_called,
                   now, emissions>>

NextScrape ==
    \/ RunObserver
    \/ WhileTest
    \/ \E text \in SampleTexts : PollScrapes(text)
    \/ Generate
    \/ WriteBackup
    \/ WriteOpen
    \/ WriteDump
    \/ Analysis
    \/ Sleep

InitScrape == Init /\ thresholds = ScrapeThresholds

SpecScrape == InitScrape /\ [][NextScrape]_vars

(***************************************************************************)
(* The loop with a moving wall clock (SpecTimed), and the loop with        *)
(* restarts (SpecRestart): after run_observer has ended (stop() or         *)
(* Ctrl-C), main() is started again with the files that the earlier        *)
(* process left behind.                                                    *)
(***************************************************************************)
\* Counts of the timed loop: a change of mode, a change of more than 50
\* within a mode, and neither of the two.
TimedCounts == {0, 51, 301}

\* The wall clock advances (it is assumed never to go backwards).
Tick ==
    /\ now < MaxClock
    /\ now' = now + 1
    /\ UNCHANGED <<observer_state, locals, running, pc, unconfirmed,
                   stop_called, steps, emissions, metrics_text, audit_dir>>

\* Variant of Restart: the new process takes mode and count from the signal
\* in the control file.
Restart_restores ==
    /\ pc \in {"stopped", "interrupted"}
    /\ current_mode' =
           IF IsSome(control_file) /\ Get(control_file) # Truncated
           THEN Get(control_file).mode ELSE "moderate"
    /\ last_cardinality_count' =
           IF IsSome(control_file) /\ Get(control_file) # Truncated
           THEN Get(control_file).ts_count ELSE 0
    /\ mode_change_count' = 0
    /\ running' = FALSE
    /\ pc' = "start"
    /\ cardinality_data' = None
    /\ control_signal' = None
    /\ write_success' = None
    /\ write_outcome' = None
    /\ classification' = None
    /\ cycle_start' = None
    /\ decisions' = <<>>
    /\ mode_transitions' = 0
    /\ unconfirmed' = FALSE
    /\ stop_called' = FALSE
    /\ steps' = <<>>
    /\ emissions' = <<>>
    /\ metrics_text' = None
    /\ UNCHANGED audit_dir
    /\ UNCHANGED <<thresholds, control_file, control_backup, now>>

\* A new process: main() constructs a new observer. Nothing is read from
\* the control file or its backup, which stay as they were left.
Restart ==
    /\ pc \in {"stopped", "interrupted"}
    /\ current_mode' = "moderate"
    /\ last_cardinality_count' = 0
    /\ mode_change_count' = 0
    /\ running' = FALSE
    /\ pc' = "start"
    /\ cardinality_data' = None
    /\ control_signal' = None
    /\ write_success' = None
    /\ write_outcome' = None
    /\ classification' = None
    /\ cycle_start' = None
    /\ decisions' = <<>>
    /\ mode_transitions' = 0
    /\ unconfirmed' = FALSE
    /\ stop_called' = FALSE
    /\ steps' = <<>>
    /\ emissions' = <<>>
    /\ metrics_text' = None
    /\ UNCHANGED audit_dir
    /\ UNCHANGED <<thresholds, control_file, control_backup, now>>

NextTimed ==
    \/ RunObserver
    \/ WhileTest
    \/ \E count \in TimedCounts : PollSucceeds(count)
    \/ PollFails
    \/ Generate
    \/ WriteBackup
    \/ WriteOpen
    \/ WriteDump
    \/ Analysis
    \/ Sleep
    \/ Tick

InitTimed == Init /\ thresholds = DefaultThresholds

SpecTimed == InitTimed /\ [][NextTimed]_vars

NextRestart ==
    \/ RunObserver
    \/ WhileTest
    \/ \E count \in TimedCounts : PollSucceeds(count)
    \/ PollFails
    \/ Generate
    \/ WriteBackup
    \/ WriteOpen
    \/ WriteDump
    \/ Analysis
    \/ Sleep
    \/ Stop
    \/ KeyboardInterrupt
    \/ Restart

SpecRestart == InitTimed /\ [][NextRestart]_vars

(***************************************************************************)
(* Direct calls on a freshly constructed observer: one call of             *)
(* determine_optimization_mode, or one call of generate_control_signal,    *)
(* on any count in 0..MaxCount.                                            *)
(***************************************************************************)
Untouched == pc = "start" /\ classification = None /\ decisions = <<>>

CallClassify(count) ==
    /\ Untouched
    /\ classification' =
           Some([count |-> count, result |-> determine_optimization_mode(count)])
    /\ UNCHANGED <<thresholds, current_mode, last_cardinality_count,
                   mode_change_count, running, pc, cardinality_data,
                   control_signal, control_file, control_backup, write_success,
                   cycle_start, decisions, mode_transitions, write_outcome,
                   unconfirmed, stop_called,
                   now, emissions, metrics_text, audit_dir, steps>>

CallGenerate(count) ==
    /\ Untouched
    /\ cardinality_data' = Some([cardinality_count |-> count])
    /\ cycle_start' = Some(LoopState)
    /\ generate_control_signal(count)
    /\ UNCHANGED <<thresholds, running, pc, control_file, control_backup,
                   write_success, classification, write_outcome, unconfirmed,
                   stop_called, now, metrics_text, audit_dir, steps>>
    /\ Observe

NextCalls ==
    \/ \E count \in 0..MaxCount : CallClassify(count)
    \/ \E count \in 0..MaxCount : CallGenerate(count)

SpecCalls == Init /\ [][NextCalls]_vars

(***************************************************************************)
(* One direct call of determine_optimization_mode on an observer that      *)
(* main() constructed from float thresholds.                               *)
(***************************************************************************)
CallClassifyFloat(count) ==
    /\ Untouched
    /\ classification' =
           Some([count |-> count, result |-> FloatClassify(thresholds, count)])
    /\ UNCHANGED <<thresholds, current_mode, last_cardinality_count,
                   mode_change_count, running, pc, cardinality_data,
                   control_signal, control_file, control_backup, write_success,
                   cycle_start, decisions, mode_transitions, write_outcome,
                   unconfirmed, stop_called, now, emissions, metrics_text,
                   audit_dir, steps>>

NextFloat == \E count \in 0..MaxCount : CallClassifyFloat(count)

InitFloat == thresholds \in FloatThresholdSets /\ Constructed

SpecFloat == InitFloat /\ [][NextFloat]_vars

(***************************************************************************)
(* The PhoenixCardinalityObserver of phoenix-toolkit.py, on the same       *)
(* variables: its classifier, generator, writer and loop.                  *)
(***************************************************************************)
toolkit_ModerateLevel == 0

toolkit_AdaptiveBase == 26

toolkit_AdaptiveSpan == 49

toolkit_AdaptiveCap == 75

toolkit_UltraBase == 76

toolkit_UltraSpan == 24

toolkit_UltraCap == 100

\* The elif branch: count <= thresholds["adaptive"] (and count > moderate).
toolkit_AdaptiveLevel(th, cardinality_count) ==
    LET range_size == th.adaptive - th.moderate
        position == cardinality_count - th.moderate
        opt_level == IntScale(toolkit_AdaptiveBase, position, range_size, toolkit_AdaptiveSpan)
    IN  Min(toolkit_AdaptiveCap, Max(toolkit_AdaptiveBase, opt_level))

\* The else branch: count > thresholds["adaptive"].
toolkit_UltraLevel(th, cardinality_count) ==
    LET excess == cardinality_count - th.adaptive
        max_excess == th.ultra - th.adaptive
    IN  IF excess >= max_excess
        THEN toolkit_UltraCap
        ELSE Min(toolkit_UltraCap,
                 Max(toolkit_UltraBase, IntScale(toolkit_UltraBase, excess, max_excess, toolkit_UltraSpan)))

toolkit_Classify(th, cardinality_count) ==
    IF cardinality_count <= th.moderate
    THEN [mode |-> "moderate", level |-> toolkit_ModerateLevel]
    ELSE IF cardinality_count <= th.adaptive
         THEN [mode |-> "adaptive", level |-> toolkit_AdaptiveLevel(th, cardinality_count)]
         ELSE [mode |-> "ultra", level |-> toolkit_UltraLevel(th, cardinality_count)]

toolkit_determine_optimization_mode(cardinality_count) ==
    toolkit_Classify(thresholds, cardinality_count)

toolkit_SignificantChange == 50

toolkit_StabilityPeriodSeconds == 300

toolkit_TransitionDurationSeconds == 0

toolkit_cardinality_change(cardinality_count) ==
    Abs(cardinality_count - last_cardinality_count)

toolkit_significant_change(cardinality_count) ==
    toolkit_cardinality_change(cardinality_count) > toolkit_SignificantChange

\* Variant of toolkit_ShouldEmit: a signal on a change of mode only.
toolkit_ShouldEmit_mode_only(cardinality_count) ==
    toolkit_determine_optimization_mode(cardinality_count).mode # current_mode

\* The condition of the outer if: a signal is generated.
toolkit_ShouldEmit(cardinality_count) ==
    \/ toolkit_determine_optimization_mode(cardinality_count).mode # current_mode
    \/ toolkit_significant_change(cardinality_count)

\* The condition of the inner if: the emission is a mode change.
toolkit_IsModeChange(cardinality_count) ==
    toolkit_determine_optimization_mode(cardinality_count).mode # current_mode

\* mode_change_count after the inner if.
toolkit_NextModeChangeCount(cardinality_count) ==
    IF toolkit_IsModeChange(cardinality_count)
    THEN mode_change_count + 1
    ELSE mode_change_count

toolkit_Reason(cardinality_count) ==
    IF toolkit_IsModeChange(cardinality_count)
    THEN [kind |-> "Mode change",
          from |-> current_mode,
          to |-> toolkit_determine_optimization_mode(cardinality_count).mode,
          cardinality |-> cardinality_count]
    ELSE [kind |-> "Cardinality update",
          cardinality |-> cardinality_count,
          sign |-> "+",
          change |-> toolkit_cardinality_change(cardinality_count)]

\* The dict built when a signal is generated; timestamp = datetime.now(...)
\* is the clock reading `now`. Of observer_metadata, the two entries computed
\* from the count.
toolkit_BuildSignal(cardinality_count) ==
    [mode |-> toolkit_determine_optimization_mode(cardinality_count).mode,
     last_updated |-> now,
     reason |-> toolkit_Reason(cardinality_count),
     ts_count |-> cardinality_count,
     config_version |-> Timestamp(now),
     correlation_id |-> <<"observer-", Timestamp(now)>>,
     optimization_level |-> toolkit_determine_optimization_mode(cardinality_count).level,
     thresholds |-> thresholds,
     previous_mode |-> current_mode,
     transition_timestamp |-> now,
     unique_time_series |-> cardinality_count,
     reduction_potential |-> Max(0, cardinality_count - thresholds.moderate),
     transition_duration_seconds |-> toolkit_TransitionDurationSeconds,
     stability_period_seconds |-> toolkit_StabilityPeriodSeconds,
     mode_changes_total |-> toolkit_NextModeChangeCount(cardinality_count)]

\* One call of generate_control_signal: the returned value goes to
\* control_signal, the loop state is updated only when a signal is built.
toolkit_generate_control_signal(cardinality_count) ==
    IF toolkit_ShouldEmit(cardinality_count)
    THEN /\ control_signal' = Some(toolkit_BuildSignal(cardinality_count))
         /\ mode_change_count' = toolkit_NextModeChangeCount(cardinality_count)
         /\ current_mode' = toolkit_determine_optimization_mode(cardinality_count).mode
         /\ last_cardinality_count' = cardinality_count
    ELSE /\ control_signal' = None
         /\ UNCHANGED <<current_mode, last_cardinality_count, mode_change_count>>

\* The backup file after the "Create backup" step has run to its end.
toolkit_BackupAfterCopy == IF IsSome(control_file) THEN control_file ELSE control_backup

\* return True / return False of write_control_signal, back in run_observer.
toolkit_WriteReturns(outcome) ==
    /\ write_success' = Some(outcome = "written")
    /\ write_outcome' = Some(outcome)
    /\ unconfirmed' = (outcome # "written")
    /\ pc' = "analysis"

\* write_control_signal continues with its next statement.
toolkit_WriteContinues(next_pc) ==
    /\ pc' = next_pc
    /\ UNCHANGED <<write_success, write_outcome, unconfirmed>>

\* main(): observer.run_observer(args.interval); self.running = True.
toolkit_RunObserver ==
    /\ pc = "start"
    /\ running' = TRUE
    /\ pc' = "while"
    /\ UNCHANGED <<observer_state, locals, unconfirmed, stop_called,
                   now, emissions, metrics_text, audit_dir, steps>>

\* while self.running
toolkit_WhileTest ==
    /\ pc = "while"
    /\ pc' = IF running THEN "poll" ELSE "stopped"
    /\ steps' = <<>>
    /\ UNCHANGED <<observer_state, locals, running, unconfirmed, stop_called,
                   now, emissions, metrics_text, audit_dir>>

\* get_cardinality_metrics returns a sample.
toolkit_PollSucceeds(count) ==
    /\ pc = "poll"
    /\ mode_change_count < MaxModeChanges
    /\ cardinality_data' = Some([cardinality_count |-> count])
    /\ cycle_start' = Some(LoopState)
    /\ pc' = "generate"
    /\ Step(<<"poll">>)
    /\ UNCHANGED <<observer_state, running, control_signal, write_success,
                   write_outcome, classification, unconfirmed, stop_called,
                   now, emissions, metrics_text, audit_dir>>

\* get_cardinality_metrics catches an exception and returns None:
\* `if not cardinality_data` goes to the sleep and the next iteration.
toolkit_PollFails ==
    /\ pc = "poll"
    /\ mode_change_count < MaxModeChanges
    /\ cardinality_data' = None
    /\ cycle_start' = Some(LoopState)
    /\ pc' = "sleep"
    /\ Step(<<"poll">>)
    /\ UNCHANGED <<observer_state, running, control_signal, write_success,
                   write_outcome, classification, unconfirmed, stop_called,
                   now, emissions, metrics_text, audit_dir>>

\* control_signal = self.generate_control_signal(cardinality_data): the
\* classifier call, then the decision.
toolkit_Generate ==
    /\ pc = "generate"
    /\ toolkit_generate_control_signal(Get(cardinality_data).cardinality_count)
    /\ pc' = IF IsSome(control_signal') THEN "write" ELSE "analysis"
    /\ Step(<<"classify", "decide">>)
    /\ UNCHANGED <<thresholds, running, cardinality_data, control_file,
                   control_backup, write_success, write_outcome, classification,
                   cycle_start, unconfirmed, stop_called, now, metrics_text,
                   audit_dir>>
    /\ Observe

\* write_control_signal, "Create backup": nothing to do without a control
\* file; otherwise the copy is made, or opening a file raises, or the copy
\* raises after the backup was opened for writing.
toolkit_WriteBackup ==
    /\ pc = "write"
    /\ Step(<<"persist">>)
    /\ \/ /\ control_backup' = toolkit_BackupAfterCopy
          /\ toolkit_WriteContinues("write_open")
       \/ /\ IsSome(control_file)
          /\ UNCHANGED control_backup
          /\ toolkit_WriteReturns("backup_open_fails")
       \/ /\ IsSome(control_file)
          /\ control_backup' = Some(Truncated)
          /\ toolkit_WriteReturns("backup_copy_fails")
    /\ UNCHANGED <<thresholds, current_mode, last_cardinality_count,
                   mode_change_count, control_file, mode_transitions, decisions,
                   running, cardinality_data, control_signal, classification,
                   cycle_start, stop_called, now, emissions, metrics_text,
                   audit_dir>>

\* write_control_signal, open(self.control_file_path, 'w'): the file is
\* created or emptied, or the open raises.
toolkit_WriteOpen ==
    /\ pc = "write_open"
    /\ \/ /\ control_file' = Some(Truncated)
          /\ toolkit_WriteContinues("write_dump")
       \/ /\ UNCHANGED control_file
          /\ toolkit_WriteReturns("open_fails")
    /\ UNCHANGED <<thresholds, current_mode, last_cardinality_count,
                   mode_change_count, control_backup, mode_transitions,
                   decisions, running, cardinality_data, control_signal,
                   classification, cycle_start, stop_called,
                   now, emissions, metrics_text, audit_dir, steps>>

\* write_control_signal, yaml.dump and the close of the file: the signal is
\* in the file, or the dump raises and leaves the file incomplete.
toolkit_WriteDump ==
    /\ pc = "write_dump"
    /\ \/ /\ control_file' = Some(Get(control_signal))
          /\ toolkit_WriteReturns("written")
       \/ /\ UNCHANGED control_file
          /\ toolkit_WriteReturns("dump_fails")
    /\ UNCHANGED <<thresholds, current_mode, last_cardinality_count,
                   mode_change_count, control_backup, mode_transitions,
                   decisions, running, cardinality_data, control_signal,
                   classification, cycle_start, stop_called,
                   now, emissions, metrics_text, audit_dir, steps>>

\* success = self.write_control_signal(control_signal): the steps of one call.
toolkit_write_control_signal == toolkit_WriteBackup \/ toolkit_WriteOpen \/ toolkit_WriteDump

\* "Show threshold analysis": the second classifier call of the iteration.
toolkit_Analysis ==
    /\ pc = "analysis"
    /\ classification' =
           Some([count |-> Get(cardinality_data).cardinality_count,
                 result |-> toolkit_determine_optimization_mode(
                                Get(cardinality_data).cardinality_count)])
    /\ pc' = "sleep"
    /\ Step(<<"analysis">>)
    /\ UNCHANGED <<observer_state, running, cardinality_data, control_signal,
                   write_success, write_outcome, cycle_start, unconfirmed,
                   stop_called, now, emissions, metrics_text, audit_dir>>

\* time.sleep(check_interval); the iteration's locals are dead afterwards.
toolkit_Sleep ==
    /\ pc = "sleep"
    /\ pc' = "while"
    /\ cardinality_data' = None
    /\ control_signal' = None
    /\ write_success' = None
    /\ write_outcome' = None
    /\ classification' = None
    /\ cycle_start' = None
    /\ metrics_text' = None
    /\ UNCHANGED audit_dir
    /\ Step(<<"sleep">>)
    /\ UNCHANGED <<observer_state, running, unconfirmed, stop_called,
                   now, emissions>>

\* stop(), from whoever holds the observer, at any time: before run_observer
\* has begun (run_complete_demo starts it in a thread) or while it runs.
toolkit_Stop ==
    /\ pc \notin {"stopped", "interrupted"}
    /\ running \/ ~stop_called
    /\ running' = FALSE
    /\ stop_called' = TRUE
    /\ UNCHANGED <<observer_state, locals, pc, unconfirmed, steps,
                   now, emissions, metrics_text, audit_dir>>

\* The steps of the legacy class: run_observer and stop().
NextLegacy ==
    \/ RunObserver
    \/ WhileTest
    \/ \E count \in SampleCounts : PollSucceeds(count)
    \/ PollFails
    \/ Generate
    \/ WriteBackup
    \/ WriteOpen
    \/ WriteDump
    \/ Analysis
    \/ Sleep
    \/ Stop

\* The steps of the toolkit class: run_observer and stop().
NextToolkit ==
    \/ toolkit_RunObserver
    \/ toolkit_WhileTest
    \/ \E count \in SampleCounts : toolkit_PollSucceeds(count)
    \/ toolkit_PollFails
    \/ toolkit_Generate
    \/ toolkit_WriteBackup
    \/ toolkit_WriteOpen
    \/ toolkit_WriteDump
    \/ toolkit_Analysis
    \/ toolkit_Sleep
    \/ toolkit_Stop

\* Either class takes the next step, on the same thresholds, poll results
\* and write outcomes.
NextBoth ==
    \/ RunObserver
    \/ WhileTest
    \/ \E count \in SampleCounts : PollSucceeds(count)
    \/ PollFails
    \/ Generate
    \/ WriteBackup
    \/ WriteOpen
    \/ WriteDump
    \/ Analysis
    \/ Sleep
    \/ Stop
    \/ toolkit_RunObserver
    \/ toolkit_WhileTest
    \/ \E count \in SampleCounts : toolkit_PollSucceeds(count)
    \/ toolkit_PollFails
    \/ toolkit_Generate
    \/ toolkit_WriteBackup
    \/ toolkit_WriteOpen
    \/ toolkit_WriteDump
    \/ toolkit_Analysis
    \/ toolkit_Sleep
    \/ toolkit_Stop

SpecBoth == InitLoop /\ [][NextBoth]_vars

(***************************************************************************)
(* The audit tool's commands, one run of main() each, on the audit         *)
(* directory.                                                              *)
(***************************************************************************)
ObserverUnchanged ==
    UNCHANGED <<thresholds, current_mode, last_cardinality_count,
                mode_change_count, running, pc, cardinality_data,
                control_signal, control_file, control_backup, write_success,
                classification, cycle_start, decisions, mode_transitions,
                write_outcome, unconfirmed, stop_called, steps, now, emissions,
                metrics_text>>

\* `init`: initialize_audit_structure, discover_components,
\* create_component_audit_files, update_summary.
AuditInit(components) ==
    /\ audit_dir' =
           update_summary(
               create_component_audit_files(
                   initialize_audit_structure(audit_dir, now), components),
               now)
    /\ ObserverUnchanged

\* `status`: update_component_status.
AuditStatus(component_name, status, owner) ==
    LET component_files == Glob(audit_dir, <<"components", "*", component_name>>)
        updated ==
            [audit_dir EXCEPT !.files =
                [path \in DOMAIN audit_dir.files |->
                    IF path \in component_files
                    THEN StatusUpdated(audit_dir.files[path], status, owner, now)
                    ELSE audit_dir.files[path]]]
    IN /\ audit_dir' = IF component_files = {}
                       THEN audit_dir
                       ELSE update_summary(updated, now)
       /\ ObserverUnchanged

\* `issue`: add_finding on the first file that the glob lists.
AuditIssue(component_name, severity) ==
    LET component_files == Glob(audit_dir, <<"components", "*", component_name>>)
    IN /\ component_files # {}
       /\ \E file_path \in component_files :
             LET data == audit_dir.files[file_path]
                 finding == [severity |-> severity, description |-> "d"]
                 added == [audit_dir EXCEPT
                              !.files[file_path].findings.issues =
                                  Append(@, finding)]
             IN /\ Len(data.findings.issues) < MaxFindings
                /\ audit_dir' = IF IsPriority(severity)
                                THEN update_summary(added, now)
                                ELSE added
       /\ ObserverUnchanged

\* `recommend`: add_recommendation on the first file that the glob lists.
AuditRecommend(component_name) ==
    LET component_files == Glob(audit_dir, <<"components", "*", component_name>>)
    IN /\ component_files # {}
       /\ \E file_path \in component_files :
             /\ audit_dir.files[file_path].findings.recommendations < MaxFindings
             /\ audit_dir' = [audit_dir EXCEPT
                                 !.files[file_path].findings.recommendations = @ + 1]
       /\ ObserverUnchanged

NextAudit ==
    \/ \E components \in SUBSET ProjectComponents : AuditInit(components)
    \/ \E component_name \in ComponentNames, status \in AuditStates,
          owner \in Owners : AuditStatus(component_name, status, owner)
    \/ \E component_name \in ComponentNames, severity \in Severities :
          AuditIssue(component_name, severity)
    \/ \E component_name \in ComponentNames : AuditRecommend(component_name)

SpecAudit == InitTimed /\ [][NextAudit]_vars

(***************************************************************************)
(* Properties of the decision (generate_control_signal in run_observer).   *)
(***************************************************************************)
\* The iteration has a sample and generate_control_signal has returned.
Decided ==
    /\ IsSome(cardinality_data)
    /\ pc \in {"write", "write_open", "write_dump", "analysis", "sleep"}

SampleCount == Get(cardinality_data).cardinality_count
AtPoll == Get(cycle_start)
Emitted == IsSome(control_signal)
Signal == Get(control_signal)

\* C1: generate_control_signal returns a signal if and only if the mode
\* classified from the sample's count differs from the current_mode it was
\* called with, or the count is more than 50 away from the
\* last_cardinality_count it was called with.
C1_EmitIff ==
    Decided =>
        (Emitted <=>
            \/ Classify(thresholds, SampleCount).mode # AtPoll.current_mode
            \/ SampleCount - AtPoll.last_cardinality_count > 50
            \/ AtPoll.last_cardinality_count - SampleCount > 50)

\* C1 witness: a mode change on a count equal to last_cardinality_count.
C1_Witness_ModeChangeNoDelta ==
    /\ Decided
    /\ Emitted
    /\ SampleCount = AtPoll.last_cardinality_count
    /\ Signal.mode # AtPoll.current_mode

\* C1, second case reached: the mode is unchanged and the count moved by
\* exactly 50; nothing is returned.
C1_Reached_ExactlyFifty ==
    /\ Decided
    /\ ~Emitted
    /\ Abs(SampleCount - AtPoll.last_cardinality_count) = 50

\* C2: in an iteration whose decision returned nothing, current_mode,
\* last_cardinality_count, mode_change_count, the control file and its backup
\* are what they were at the poll, write_control_signal is not entered, and
\* the iteration goes on to its sleep (unless Ctrl-C ends the process).
C2_NoOpFrame ==
    (IsSome(cardinality_data) /\ pc # "generate" /\ ~Emitted) =>
        /\ LoopState = AtPoll
        /\ write_success = None
        /\ write_outcome = None
        /\ "persist" \notin {steps[i] : i \in 1..Len(steps)}
        /\ pc \in {"analysis", "sleep", "interrupted"}

\* C2 witness: a no-op iteration at its sleep, with a control file and a
\* backup on disk from earlier emissions.
C2_Witness ==
    /\ pc = "sleep"
    /\ IsSome(cardinality_data)
    /\ ~Emitted
    /\ IsSome(control_file)
    /\ IsSome(control_backup)
    /\ SampleCount # last_cardinality_count

\* C3: mode_change_count grows by exactly 1 in an iteration that emits a
\* signal whose mode differs from the current_mode at the poll, is unchanged
\* in every other iteration (magnitude-only emission, no-op, failed poll),
\* equals the number of times current_mode changed value, and is what an
\* emitted signal reports as mode_changes_total.
C3_ModeChangeCount ==
    /\ mode_change_count = mode_transitions
    /\ IsSome(cycle_start) =>
           mode_change_count =
               AtPoll.mode_change_count
               + (IF Emitted /\ Signal.mode # AtPoll.current_mode THEN 1 ELSE 0)
    /\ Emitted => Signal.mode_changes_total = mode_change_count

\* C3 witness: a magnitude-only emission after a mode change.
C3_Witness ==
    /\ Decided
    /\ Emitted
    /\ Signal.mode = AtPoll.current_mode
    /\ Signal.reason.kind = "Cardinality update"
    /\ mode_change_count = 1
    /\ AtPoll.mode_change_count = 1

\* C4: of two consecutive fetched samples with the same count, the second
\* is never answered by a signal when the first was.
C4_NoDoubleEmission ==
    (/\ Len(decisions) = 2
     /\ decisions[1].count = decisions[2].count
     /\ decisions[1].emitted)
        => ~decisions[2].emitted

\* C4 witness: an emission, then the same count again and no signal.
C4_Witness ==
    /\ Len(decisions) = 2
    /\ decisions[1].count = decisions[2].count
    /\ decisions[1].emitted
    /\ ~decisions[2].emitted
    /\ pc = "analysis"

(***************************************************************************)
(* Properties of the classifier (determine_optimization_mode).             *)
(***************************************************************************)
Classified == IsSome(classification)
ClassifiedCount == Get(classification).count
ClassifiedMode == Get(classification).result.mode
ClassifiedLevel == Get(classification).result.level

\* level is the exact value base + num / den truncated to an integer.
IsTruncationOf(level, base, num, den) ==
    /\ (level - base) * den <= num
    /\ num < (level - base + 1) * den

\* level is an integer nearest to the exact value base + num / den.
IsNearestTo(level, base, num, den) ==
    /\ 2 * (level - base) * den <= 2 * num + den
    /\ 2 * num - den <= 2 * (level - base) * den

\* C5: with moderate < adaptive < ultra, the mode is moderate, with level 0,
\* exactly when count <= moderate, adaptive exactly when
\* moderate < count <= adaptive, and ultra exactly when count > adaptive.
C5_ModeBoundaries ==
    (Classified /\ Ordered(thresholds)) =>
        /\ ClassifiedMode = "moderate" <=> ClassifiedCount <= thresholds.moderate
        /\ ClassifiedMode = "moderate" => ClassifiedLevel = 0
        /\ ClassifiedMode = "adaptive" <=>
               (/\ thresholds.moderate < ClassifiedCount
                /\ ClassifiedCount <= thresholds.adaptive)
        /\ ClassifiedMode = "ultra" <=> ClassifiedCount > thresholds.adaptive

\* C5 witness: a count equal to the moderate threshold, classified moderate.
C5_Witness ==
    /\ Classified
    /\ Ordered(thresholds)
    /\ ClassifiedCount = thresholds.moderate
    /\ ClassifiedMode = "moderate"
    /\ ClassifiedLevel = 0

InAdaptiveRange ==
    /\ Classified
    /\ Ordered(thresholds)
    /\ thresholds.moderate < ClassifiedCount
    /\ ClassifiedCount <= thresholds.adaptive

\* C6 as stated: for moderate < count <= adaptive the level is
\* 26 + (count - moderate) / (adaptive - moderate) * 49 rounded to the
\* nearest integer, within [26, 75].
C6_LevelRounded ==
    InAdaptiveRange =>
        /\ IsNearestTo(ClassifiedLevel, 26,
                       (ClassifiedCount - thresholds.moderate) * 49,
                       thresholds.adaptive - thresholds.moderate)
        /\ ClassifiedLevel \in 26..75

\* C6 amended: for moderate < count <= adaptive the mode is adaptive and the
\* level is 26 + (count - moderate) / (adaptive - moderate) * 49 truncated to
\* an integer (rounded down), which lies in [26, 75].
C6_LevelTruncated ==
    InAdaptiveRange =>
        /\ ClassifiedMode = "adaptive"
        /\ IsTruncationOf(ClassifiedLevel, 26,
                          (ClassifiedCount - thresholds.moderate) * 49,
                          thresholds.adaptive - thresholds.moderate)
        /\ ClassifiedLevel \in 26..75

\* C6 witness: an adaptive count whose exact level has a fraction above one
\* half, so that truncating and rounding differ.
C6_Witness ==
    /\ InAdaptiveRange
    /\ ~IsNearestTo(ClassifiedLevel, 26,
                    (ClassifiedCount - thresholds.moderate) * 49,
                    thresholds.adaptive - thresholds.moderate)

InUltraRange ==
    /\ Classified
    /\ Ordered(thresholds)
    /\ ClassifiedCount > thresholds.adaptive

\* C7 as stated: for count > adaptive, (ultra, 100) when
\* count - adaptive >= ultra - adaptive, and otherwise ultra with the level
\* 76 + (count - adaptive) / (ultra - adaptive) * 24 rounded to the nearest
\* integer, within [76, 100].
C7_LevelRounded ==
    InUltraRange =>
        /\ ClassifiedMode = "ultra"
        /\ IF ClassifiedCount - thresholds.adaptive
                  >= thresholds.ultra - thresholds.adaptive
           THEN ClassifiedLevel = 100
           ELSE /\ IsNearestTo(ClassifiedLevel, 76,
                               (ClassifiedCount - thresholds.adaptive) * 24,
                               thresholds.ultra - thresholds.adaptive)
                /\ ClassifiedLevel \in 76..100

\* C7 amended: for count > adaptive, (ultra, 100) when
\* count - adaptive >= ultra - adaptive, and otherwise ultra with the level
\* 76 + (count - adaptive) / (ultra - adaptive) * 24 truncated to an integer
\* (rounded down), which lies in [76, 100].
C7_LevelTruncated ==
    InUltraRange =>
        /\ ClassifiedMode = "ultra"
        /\ IF ClassifiedCount - thresholds.adaptive
                  >= thresholds.ultra - thresholds.adaptive
           THEN ClassifiedLevel = 100
           ELSE /\ IsTruncationOf(ClassifiedLevel, 76,
                                  (ClassifiedCount - thresholds.adaptive) * 24,
                                  thresholds.ultra - thresholds.adaptive)
                /\ ClassifiedLevel \in 76..100

\* C7 witness: an ultra count below the ultra threshold whose exact level has
\* a fraction above one half.
C7_Witness ==
    /\ InUltraRange
    /\ ClassifiedCount < thresholds.ultra
    /\ ~IsNearestTo(ClassifiedLevel, 76,
                    (ClassifiedCount - thresholds.adaptive) * 24,
                    thresholds.ultra - thresholds.adaptive)

\* C8: with moderate < adaptive < ultra, level and mode severity are monotone
\* non-decreasing in the count: the classified count against every other
\* count of 0..MaxCount.
C8_Monotone ==
    (Classified /\ Ordered(thresholds)) =>
        \A other \in 0..MaxCount :
            LET r == Classify(thresholds, other)
            IN  /\ ClassifiedCount <= other =>
                       /\ ClassifiedLevel <= r.level
                       /\ Severity(ClassifiedMode) <= Severity(r.mode)
                /\ other <= ClassifiedCount =>
                       /\ r.level <= ClassifiedLevel
                       /\ Severity(r.mode) <= Severity(ClassifiedMode)

\* C8 witness: an adaptive count with a count above it on the same level and
\* counts above and below it on other levels.
C8_Witness ==
    /\ Classified
    /\ Ordered(thresholds)
    /\ ClassifiedMode = "adaptive"
    /\ ClassifiedCount < MaxCount
    /\ Classify(thresholds, ClassifiedCount + 1).level = ClassifiedLevel
    /\ \E other \in 0..MaxCount :
           other > ClassifiedCount /\ Classify(thresholds, other).level > ClassifiedLevel
    /\ \E other \in 0..MaxCount :
           other < ClassifiedCount /\ Classify(thresholds, other).level < ClassifiedLevel

\* C9: with thresholds 300 / 375 / 450, 300 -> (moderate, 0),
\* 337 -> (adaptive, 50), 450 -> (ultra, 100), 600 -> (ultra, 100), and no
\* count has a level above 100.
C9_Examples ==
    (Classified /\ thresholds = [moderate |-> 300, adaptive |-> 375, ultra |-> 450]) =>
        /\ ClassifiedCount = 300 =>
               Get(classification).result = [mode |-> "moderate", level |-> 0]
        /\ ClassifiedCount = 337 =>
               Get(classification).result = [mode |-> "adaptive", level |-> 50]
        /\ ClassifiedCount = 450 =>
               Get(classification).result = [mode |-> "ultra", level |-> 100]
        /\ ClassifiedCount = 600 =>
               Get(classification).result = [mode |-> "ultra", level |-> 100]
        /\ ClassifiedLevel <= 100

\* C9 witness: count 600 under 300 / 375 / 450, saturated at 100.
C9_Witness ==
    /\ Classified
    /\ thresholds = [moderate |-> 300, adaptive |-> 375, ultra |-> 450]
    /\ ClassifiedCount = 600
    /\ ClassifiedLevel = 100

\* C9, the other examples reached.
C9_Reached_337 ==
    /\ Classified
    /\ thresholds = [moderate |-> 300, adaptive |-> 375, ultra |-> 450]
    /\ ClassifiedCount = 337
    /\ ClassifiedLevel = 50

\* A (mode, level) pair lies in the band of its mode.
InBand(mode, level) ==
    /\ level \in 0..100
    /\ level = 0 <=> mode = "moderate"
    /\ level \in 26..75 <=> mode = "adaptive"
    /\ level \in 76..100 <=> mode = "ultra"
    /\ level \notin 1..25

\* C10: every classification, every emitted signal and every signal in the
\* control file or its backup has an integer level in [0, 100] in the band of
\* its mode: 0 iff moderate, 26..75 iff adaptive, 76..100 iff ultra.
C10_LevelBands ==
    /\ Classified => InBand(ClassifiedMode, ClassifiedLevel)
    /\ Emitted => InBand(Signal.mode, Signal.optimization_level)
    /\ \A f \in {control_file, control_backup} :
           (IsSome(f) /\ Get(f) # Truncated) =>
               InBand(Get(f).mode, Get(f).optimization_level)

\* C10 witness: an emitted adaptive signal at the bottom of its band.
C10_Witness ==
    /\ Emitted
    /\ Signal.mode = "adaptive"
    /\ Signal.optimization_level = 26
    /\ Signal.ts_count = thresholds.moderate + 1

(***************************************************************************)
(* Properties of the loop: failed polls, failed writes, the files.         *)
(***************************************************************************)
StepSet == {steps[i] : i \in 1..Len(steps)}

\* C11: in an iteration whose poll failed, the rest of the iteration is
\* skipped: current_mode, last_cardinality_count, mode_change_count, the
\* control file and its backup are what they were at the poll, no signal is
\* built and no write is made; the iteration is the poll and one sleep, after
\* which the loop is back at its while test.
C11_FailedPollSkips ==
    /\ (IsSome(cycle_start) /\ cardinality_data = None) =>
           /\ LoopState = AtPoll
           /\ ~Emitted
           /\ write_success = None
           /\ write_outcome = None
           /\ steps = <<"poll">>
           /\ pc \in {"sleep", "interrupted"}
    /\ (Len(steps) >= 2 /\ steps[2] # "classify") =>
           /\ steps = <<"poll", "sleep">>
           /\ pc \in {"while", "interrupted"}

\* C11 witness: a failed poll at its sleep, in a loop that has left its
\* initial state and has written a control file.
C11_Witness ==
    /\ pc = "sleep"
    /\ cardinality_data = None
    /\ IsSome(cycle_start)
    /\ current_mode # "moderate"
    /\ last_cardinality_count # 0
    /\ IsSome(control_file)

\* The iteration has decided and has not yet entered write_control_signal.
DecidedNotWritten ==
    /\ IsSome(cardinality_data)
    /\ write_outcome = None
    /\ pc = "write" \/ (pc = "analysis" /\ ~Emitted)

\* C12: when the write of a signal failed and the next fetched sample has
\* the same count, the loop decides to emit again and goes to the write.
C12_RetriedNextCycle ==
    (/\ DecidedNotWritten
     /\ unconfirmed
     /\ Len(decisions) = 2
     /\ decisions[1].emitted
     /\ decisions[1].count = decisions[2].count)
        => (decisions[2].emitted /\ pc = "write")

\* C13: when the loop has decided to emit and the write has not begun,
\* current_mode, last_cardinality_count and mode_change_count already are those
\* of the signal, and the control file and its backup are still untouched.
C13_StateUpdatedBeforeWrite ==
    pc = "write" =>
        /\ Emitted
        /\ current_mode = Signal.mode
        /\ last_cardinality_count = Signal.ts_count
        /\ mode_change_count = Signal.mode_changes_total
        /\ control_file = AtPoll.control_file
        /\ control_backup = AtPoll.control_backup
        /\ write_success = None

\* C13 witness: after a failed write the control file holds a complete signal
\* whose mode is not the loop's current_mode.
C13_Witness ==
    /\ write_success = Some(FALSE)
    /\ pc = "analysis"
    /\ IsSome(control_file)
    /\ Get(control_file) # Truncated
    /\ Get(control_file).mode # current_mode

\* C13, the other diverged state reached: after a failed write there is no
\* control file and current_mode is not the default.
C13_Reached_NoFile ==
    /\ write_success = Some(FALSE)
    /\ control_file = None
    /\ current_mode # "moderate"

\* C14: at every moment a read of the control file gives complete content,
\* and while write_control_signal runs it gives the content before the call
\* or the new signal.
C14_ReaderSeesOldOrNew ==
    /\ ReadControlFile # "truncated"
    /\ pc \in {"write", "write_open", "write_dump"} =>
           control_file \in {AtPoll.control_file, control_signal}

\* C15: when the backup step of write_control_signal fails, the new signal is
\* in the control file and the call has returned True.
C15_BackupBestEffort ==
    (/\ IsSome(write_outcome)
     /\ Get(write_outcome) \in {"backup_open_fails", "backup_copy_fails"})
        => (control_file = control_signal /\ write_success = Some(TRUE))

\* C16 as stated: after every write_control_signal that returned True, the
\* backup file exists and holds the control file's content before the call.
C16_BackupAlways ==
    write_success = Some(TRUE) =>
        /\ IsSome(control_backup)
        /\ control_backup = AtPoll.control_file

\* C16 amended: after every write_control_signal that returned True the
\* control file holds the signal; if a control file existed before the call,
\* the backup file holds its content before the call; if none existed (the
\* first emission), no backup is written and the backup is as it was.
C16_BackupWhenFileExisted ==
    write_success = Some(TRUE) =>
        /\ control_file = control_signal
        /\ IF IsSome(AtPoll.control_file)
           THEN control_backup = AtPoll.control_file
           ELSE control_backup = AtPoll.control_backup

\* C16 witness: a successful write over an existing control file, with a
\* backup that changed and differs from the new content.
C16_Witness ==
    /\ write_success = Some(TRUE)
    /\ IsSome(AtPoll.control_file)
    /\ Get(AtPoll.control_file) # Truncated
    /\ control_backup = AtPoll.control_file
    /\ control_backup # AtPoll.control_backup
    /\ control_backup # control_file

\* C17: run_observer is only ever entered with moderate < adaptive < ultra.
C17_OrderedWhenRunning ==
    pc # "start" => Ordered(thresholds)

\* C18: once stop() has been called, the while test never again starts an
\* iteration.
C18_NoPollAfterStop ==
    [][(stop_called /\ pc = "while") => pc' # "poll"]_vars

\* C19: the loop is never left with a signal decided and its write not
\* attempted.
C19_CycleCompletesBeforeExit ==
    (pc \in {"stopped", "interrupted"} /\ Emitted) => "persist" \in StepSet

\* The complete iterations: a failed poll, a no-op, an emission.
CycleSteps ==
    { <<"poll", "sleep">>,
      <<"poll", "classify", "decide", "analysis", "sleep">>,
      <<"poll", "classify", "decide", "persist", "analysis", "sleep">> }

IsPrefix(s, t) ==
    /\ Len(s) <= Len(t)
    /\ \A i \in 1..Len(s) : s[i] = t[i]

\* C20: the steps of an iteration are taken in the order poll, classify,
\* decide, then persist exactly when a signal was decided; a poll begins only
\* from the while test, and the while test is reached only at the start or
\* after a complete iteration, which ends with exactly one sleep.
C20_CycleOrder ==
    /\ \E t \in CycleSteps : IsPrefix(steps, t)
    /\ pc = "poll" => steps = <<>>
    /\ pc = "while" => (steps = <<>> \/ steps \in CycleSteps)
    /\ (IsSome(cardinality_data) /\ Len(steps) >= 4) =>
           (steps[4] = "persist" <=> Emitted)

\* C20 witness: the while test after a complete emitting iteration.
C20_Witness ==
    /\ pc = "while"
    /\ running
    /\ steps = <<"poll", "classify", "decide", "persist", "analysis", "sleep">>

\* C20, the other complete iterations reached at the while test.
C20_Reached_FailedPoll ==
    pc = "while" /\ running /\ steps = <<"poll", "sleep">>

(***************************************************************************)
(* Properties of the loop: errors while it runs.                           *)
(***************************************************************************)
\* C21: a failed poll (a fetch or parse exception inside
\* get_cardinality_metrics) and a failed write never end run_observer: it is
\* left only after stop() or Ctrl-C, until then self.running stays set, a
\* failed step is followed by the rest of the iteration, and the while test
\* of a running loop starts the next poll.
C21_LoopSurvivesErrors ==
    /\ [](/\ pc \in RunningPcs \cup {"start", "stopped", "interrupted"}
          /\ pc \in {"stopped", "interrupted"} => stop_called
          /\ (pc \in RunningPcs /\ ~stop_called) => running
          /\ (IsSome(write_outcome) /\ ~stop_called) => pc \in {"analysis", "sleep"}
          /\ (IsSome(cycle_start) /\ cardinality_data = None /\ ~stop_called)
                 => pc = "sleep")
    /\ [][(pc = "while" /\ running /\ pc' # pc) => pc' \in {"poll", "interrupted"}]_vars
    /\ [][(pc = "sleep" /\ pc' # pc) => pc' \in {"while", "interrupted"}]_vars

\* C21 witness: a running loop that nobody has stopped, at the sleep of an
\* iteration whose poll failed, after an earlier iteration whose write failed.
C21_Witness ==
    /\ pc = "sleep"
    /\ running
    /\ ~stop_called
    /\ cardinality_data = None
    /\ steps = <<"poll">>
    /\ unconfirmed

\* C21, the next iteration reached: the poll after a failed write.
C21_Reached_PollAfterFailedWrite ==
    pc = "poll" /\ running /\ ~stop_called /\ unconfirmed

(***************************************************************************)
(* Properties of the estimator (get_cardinality_metrics on a text).        *)
(***************************************************************************)
Scraped == IsSome(metrics_text)
ScrapedLines == Split(Get(metrics_text), NewLine)

\* A line of the monitored namespace that is neither blank nor a comment.
Qualifying(line) == line # <<>> /\ line[1] # "#" /\ line[1] = Namespace
QualifyingLines == { i \in 1..Len(ScrapedLines) : Qualifying(ScrapedLines[i]) }

FirstIndex(line, ch) ==
    CHOOSE i \in 1..Len(line) : line[i] = ch /\ \A j \in 1..(i - 1) : line[j] # ch

Occurrences(line, ch) == Cardinality({ i \in 1..Len(line) : line[i] = ch })

\* A label block: one opening brace with one closing brace after it.
HasLabelBlock(line) ==
    /\ Occurrences(line, "{") = 1
    /\ Occurrences(line, "}") = 1
    /\ FirstIndex(line, "{") < FirstIndex(line, "}")

\* No label block and no brace at all, or a label block.
WellFormed(line) ==
    \/ ~Contains(line, "{") /\ ~Contains(line, "}") /\ Contains(line, " ")
    \/ HasLabelBlock(line)

\* The key of a well-formed line: (metric name, raw label string), or the
\* metric name alone.
KeyOf(line) ==
    IF HasLabelBlock(line)
    THEN <<SubSeq(line, 1, FirstIndex(line, "{") - 1),
           SubSeq(line, FirstIndex(line, "{") + 1, FirstIndex(line, "}") - 1)>>
    ELSE <<SubSeq(line, 1, FirstIndex(line, " ") - 1)>>

\* C22: whatever text the collector answers with, malformed or without any
\* series, get_cardinality_metrics returns a sample and the iteration is not
\* skipped: it goes on to classify and decide with the count found, which is
\* 0 when the text has no line of the namespace.
C22_MalformedTextProceeds ==
    Scraped =>
        /\ IsSome(cardinality_data)
        /\ pc \in {"generate", "write", "write_open", "write_dump",
                   "analysis", "sleep"}
        /\ pc # "generate" => IsPrefix(<<"poll", "classify", "decide">>, steps)
        /\ SampleCount <= Cardinality(QualifyingLines)
        /\ QualifyingLines = {} => SampleCount = 0

\* C22 witness: the text is one series line without its closing brace and
\* one line of another namespace; the decision has been taken.
C22_Witness ==
    /\ Scraped
    /\ Get(metrics_text) = JoinLines(<<LineUnclosed, LineOther>>)
    /\ pc = "analysis"
    /\ IsPrefix(<<"poll", "classify", "decide">>, steps)

\* C22, the zero sample reached: nothing of the namespace in the text.
C22_Reached_ZeroSample ==
    /\ Scraped
    /\ Get(metrics_text) = JoinLines(<<LineOther, LineComment>>)
    /\ pc = "analysis"
    /\ SampleCount = 0
    /\ "decide" \in StepSet

\* C23: total_metrics is the number of qualifying lines, cardinality_count
\* is at most that, and when the qualifying lines are well-formed
\* cardinality_count is the number of distinct keys (metric name, raw label
\* string) or (metric name) among them, label strings compared verbatim.
C23_CountDistinctKeys ==
    (Scraped /\ IsSome(cardinality_data)) =>
        /\ Get(cardinality_data).total_metrics = Cardinality(QualifyingLines)
        /\ SampleCount <= Get(cardinality_data).total_metrics
        /\ (\A i \in QualifyingLines : WellFormed(ScrapedLines[i])) =>
               SampleCount =
                   Cardinality({ KeyOf(ScrapedLines[i]) : i \in QualifyingLines })

\* C23 witness: the same series with its labels in either order, and one of
\* the two lines a second time: two series on three lines.
C23_Witness ==
    /\ Scraped
    /\ IsSome(cardinality_data)
    /\ Get(metrics_text) = JoinLines(<<LineLabelsXY, LineLabelsYX, LineLabelsXY>>)
    /\ SampleCount = 2
    /\ Get(cardinality_data).total_metrics = 3

\* C24: a sample is returned for every text, and its cardinality_count is
\* the number of distinct keys among the well-formed qualifying lines: a
\* qualifying line that is not well-formed adds no key.
C24_MalformedSkipped ==
    Scraped =>
        /\ IsSome(cardinality_data)
        /\ SampleCount =
               Cardinality({ KeyOf(ScrapedLines[i]) :
                               i \in { j \in QualifyingLines :
                                         WellFormed(ScrapedLines[j]) } })

(***************************************************************************)
(* Properties of the signal: determinism, config_version, content, reason. *)
(***************************************************************************)
\* The fields of a signal that are derived from the timestamp.
TimestampFields ==
    {"last_updated", "transition_timestamp", "config_version", "correlation_id"}

WithoutTimestamps(signal) ==
    [f \in DOMAIN signal \ TimestampFields |-> signal[f]]

\* A decision as a function of the sample's count, the thresholds and the
\* prior loop state, and of nothing else.
DecisionOf(count, th, mode, last, changes) ==
    LET c == Classify(th, count)
        transition == c.mode # mode
        emit == transition \/ count - last > 50 \/ last - count > 50
        total == IF transition THEN changes + 1 ELSE changes
    IN  [emitted |-> emit,
         content |->
             IF emit
             THEN Some([mode |-> c.mode,
                        reason |-> IF transition
                                   THEN [kind |-> "Mode change", from |-> mode,
                                         to |-> c.mode, cardinality |-> count]
                                   ELSE [kind |-> "Cardinality update",
                                         cardinality |-> count, sign |-> "+",
                                         change |-> Abs(count - last)],
                        ts_count |-> count,
                        optimization_level |-> c.level,
                        thresholds |-> th,
                        previous_mode |-> mode,
                        unique_time_series |-> count,
                        reduction_potential |-> Max(0, count - th.moderate),
                        transition_duration_seconds |-> 0,
                        stability_period_seconds |-> 300,
                        mode_changes_total |-> total])
             ELSE None,
         next |-> IF emit THEN <<c.mode, count, total>> ELSE <<mode, last, changes>>]

\* C25: the decision (a signal or none), the content of the signal apart from
\* the timestamp fields, and the loop state after the decision are those that
\* the sample's count, the thresholds and the loop state at the poll
\* determine, whatever the clock reads and whatever the files hold.
C25_Deterministic ==
    Decided =>
        LET d == DecisionOf(SampleCount, thresholds, AtPoll.current_mode,
                            AtPoll.last_cardinality_count,
                            AtPoll.mode_change_count)
        IN  /\ Emitted = d.emitted
            /\ Emitted => Some(WithoutTimestamps(Signal)) = d.content
            /\ <<current_mode, last_cardinality_count, mode_change_count>> = d.next

\* C25 witness: the decision of the first iteration (count 51 on the initial
\* loop state, no control file, clock 0) is taken once more on the same
\* count and loop state, with a later clock and a control file on disk.
C25_Witness ==
    /\ Decided
    /\ Emitted
    /\ SampleCount = 51
    /\ AtPoll.current_mode = "moderate"
    /\ AtPoll.last_cardinality_count = 0
    /\ AtPoll.mode_change_count = 0
    /\ IsSome(AtPoll.control_file)
    /\ Len(emissions) = 2
    /\ now = MaxClock

\* The clock readings t and u lie in the same second.
SameSecond(t, u) ==
    \E sec \in 0..MaxClock :
        /\ sec * TicksPerSecond <= t /\ t < (sec + 1) * TicksPerSecond
        /\ sec * TicksPerSecond <= u /\ u < (sec + 1) * TicksPerSecond

\* C26: of two signals built one after the other by one observer, with a
\* clock that does not go backwards, the later has a config_version not below
\* the earlier one's, and the same config_version only when both were built
\* in the same second.
C26_ConfigVersionMonotonic ==
    Len(emissions) = 2 =>
        /\ emissions[1].at <= emissions[2].at
        /\ emissions[1].config_version <= emissions[2].config_version
        /\ emissions[1].config_version = emissions[2].config_version =>
               SameSecond(emissions[1].at, emissions[2].at)

\* C26 witness: two signals built in different seconds.
C26_Witness ==
    /\ Len(emissions) = 2
    /\ emissions[1].config_version < emissions[2].config_version
    /\ Emitted
    /\ Signal.config_version = emissions[2].config_version

\* C26, the collision reached: two signals of one second, built at
\* different clock readings.
C26_Reached_SameSecond ==
    /\ Len(emissions) = 2
    /\ emissions[1].at < emissions[2].at
    /\ emissions[1].config_version = emissions[2].config_version

\* C27: an emitted signal carries previous_mode = current_mode at the poll,
\* mode_changes_total = mode_change_count after the decision,
\* stability_period_seconds = 300, transition_duration_seconds = 0, ts_count =
\* the sample's count and thresholds = the observer's thresholds; from its
\* construction until the iteration drops it the signal does not change, and
\* a complete control file or backup is changed only by a write.
C27_SignalContent ==
    /\ [](Emitted =>
             /\ Signal.previous_mode = AtPoll.current_mode
             /\ Signal.mode_changes_total = mode_change_count
             /\ Signal.stability_period_seconds = 300
             /\ Signal.transition_duration_seconds = 0
             /\ Signal.ts_count = SampleCount
             /\ Signal.thresholds = thresholds)
    /\ [][IsSome(control_signal) =>
              control_signal' \in {control_signal, None}]_vars
    /\ [][pc \notin {"write", "write_open", "write_dump"} =>
              UNCHANGED <<control_file, control_backup>>]_vars

\* C27 witness: a signal emitted on a mode change from a mode that is not
\* the initial one, reporting the second mode change.
C27_Witness ==
    /\ Decided
    /\ Emitted
    /\ Signal.previous_mode # "moderate"
    /\ Signal.previous_mode # Signal.mode
    /\ Signal.mode_changes_total = 2
    /\ pc = "analysis"

\* C28: the reason of an emitted signal has the mode-change form, naming the
\* current_mode at the poll, the new mode and the count, exactly when the
\* new mode differs from the current_mode at the poll; otherwise it has the
\* cardinality-update form with the count and, as sign and magnitude, the
\* change count - last_cardinality_count.
C28_ReasonForm ==
    Emitted =>
        IF Signal.mode # AtPoll.current_mode
        THEN Signal.reason = [kind |-> "Mode change",
                              from |-> AtPoll.current_mode,
                              to |-> Signal.mode,
                              cardinality |-> SampleCount]
        ELSE /\ Signal.reason.kind = "Cardinality update"
             /\ Signal.reason.cardinality = SampleCount
             /\ (IF Signal.reason.sign = "+" THEN 1 ELSE -1) * Signal.reason.change
                    = SampleCount - AtPoll.last_cardinality_count

(***************************************************************************)
(* Properties of the written document.                                     *)
(***************************************************************************)
\* The control file holds a complete signal.
FileComplete == IsSome(control_file) /\ Get(control_file) # Truncated

\* The document in the control file, and what a reader loads from it.
FileDocument == YamlDump(Get(control_file))
FileLoaded == YamlLoad(FileDocument)

C30_RestartResetsLoopState ==
    /\ pc = "start" =>
           /\ current_mode = "moderate"
           /\ last_cardinality_count = 0
           /\ mode_change_count = 0
    /\ (Emitted /\ Len(emissions) = 1) =>
           /\ Signal.previous_mode = "moderate"
           /\ Signal.mode_changes_total <= 1

\* C30 witness: the first signal of a restarted observer, about to be
\* written over a control file whose signal has another mode than the
\* previous_mode now reported.
C30_Witness ==
    /\ pc = "write"
    /\ Emitted
    /\ Len(emissions) = 1
    /\ FileComplete
    /\ Get(control_file).mode # "moderate"
    /\ Signal.previous_mode = "moderate"
    /\ Signal.mode_changes_total = 1

\* C30, the counter reached: a restarted observer at its start, with a
\* control file that reports two mode changes.
C30_Reached_FileSaysTwo ==
    /\ pc = "start"
    /\ FileComplete
    /\ Get(control_file).mode_changes_total = 2
    /\ mode_change_count = 0

(***************************************************************************)
(* Properties of the loop state and of the signals it leads to.            *)
(***************************************************************************)
\* C31: with a moderate threshold >= 0, current_mode is at every moment the
\* mode that the classifier gives to last_cardinality_count.
C31_ModeMatchesLastCount ==
    thresholds.moderate >= 0 =>
        current_mode = Classify(thresholds, last_cardinality_count).mode

\* C31 witness: an observer in adaptive mode with last_cardinality_count
\* 301, at the sleep of a later iteration that built no signal.
C31_Witness ==
    /\ thresholds.moderate >= 0
    /\ pc = "sleep"
    /\ IsSome(cardinality_data)
    /\ ~Emitted
    /\ current_mode = "adaptive"
    /\ last_cardinality_count = 301
    /\ mode_change_count = 1

\* C31, the bound on the moderate threshold reached: with a negative moderate
\* threshold the initial current_mode is not the mode of count 0.
C31_Reached_NegativeModerate ==
    /\ thresholds.moderate < 0
    /\ current_mode # Classify(thresholds, last_cardinality_count).mode

\* C32: once an iteration with a sample has decided, current_mode is the mode
\* of the sample's count and the count is at most 50 away from
\* last_cardinality_count, which an iteration without a signal leaves as it
\* was: a count more than 50 away from the last emitted count is emitted.
C32_StateTracksSample ==
    Decided =>
        /\ current_mode = Classify(thresholds, SampleCount).mode
        /\ Abs(SampleCount - last_cardinality_count) <= 50
        /\ ~Emitted => last_cardinality_count = AtPoll.last_cardinality_count
        /\ Emitted => last_cardinality_count = SampleCount

\* C32 witness: the drift 0, 50, 51: the sample 50 built no signal, the
\* sample 51, one more, is 51 away from the last emitted count and is emitted.
C32_Witness ==
    /\ Decided
    /\ decisions = <<[count |-> 50, emitted |-> FALSE],
                     [count |-> 51, emitted |-> TRUE]>>
    /\ AtPoll.last_cardinality_count = 0
    /\ Signal.mode = AtPoll.current_mode

\* C33: the mode and optimization_level of an emitted signal are what the
\* classifier returns for its ts_count under its thresholds, and its mode is
\* its previous_mode exactly when it was emitted for the magnitude of the
\* change alone; the same for a signal in the control file or its backup.
SelfConsistent(signal) ==
    /\ [mode |-> signal.mode, level |-> signal.optimization_level]
           = Classify(signal.thresholds, signal.ts_count)
    /\ signal.mode = signal.previous_mode
           <=> signal.reason.kind = "Cardinality update"

C33_SignalSelfConsistent ==
    /\ Emitted => SelfConsistent(Signal)
    /\ Emitted =>
           (Signal.mode = Signal.previous_mode
                <=> Signal.mode_changes_total = AtPoll.mode_change_count)
    /\ \A f \in {control_file, control_backup} :
           (IsSome(f) /\ Get(f) # Truncated) => SelfConsistent(Get(f))

\* C33 witness: a magnitude-only signal in a mode that is not the initial
\* one, written to the control file.
C33_Witness ==
    /\ Emitted
    /\ write_success = Some(TRUE)
    /\ Signal.mode = Signal.previous_mode
    /\ Signal.mode # "moderate"
    /\ Signal.optimization_level > 0
    /\ control_file = control_signal

\* C34: with a moderate threshold >= 50, an observer that has built no signal
\* is in its initial state with no control file and no backup; the first
\* signal it builds is for a count above 50, and if that count is within the
\* moderate tier the signal is a cardinality update in mode moderate with
\* mode_changes_total 0.
C34_FirstEmission ==
    thresholds.moderate >= 50 =>
        /\ emissions = <<>> =>
               /\ control_file = None
               /\ control_backup = None
               /\ current_mode = "moderate"
               /\ last_cardinality_count = 0
               /\ mode_change_count = 0
        /\ (IsSome(cardinality_data) /\ Emitted /\ Len(emissions) = 1) =>
               /\ SampleCount > 50
               /\ SampleCount <= thresholds.moderate =>
                      /\ Signal.mode = "moderate"
                      /\ Signal.reason.kind = "Cardinality update"
                      /\ Signal.mode_changes_total = 0
                      /\ mode_change_count = 0

\* C34 witness: samples 0 and 50 built no signal, then the sample 51 gives
\* the first signal, a cardinality update.
C34_Witness ==
    /\ thresholds.moderate >= 50
    /\ Len(emissions) = 1
    /\ Len(decisions) = 2
    /\ decisions[1] = [count |-> 50, emitted |-> FALSE]
    /\ decisions[2] = [count |-> 51, emitted |-> TRUE]
    /\ Emitted
    /\ Signal.reason.kind = "Cardinality update"
    /\ Signal.mode_changes_total = 0
    /\ pc = "write"

(***************************************************************************)
(* The audit summary.                                                      *)
(***************************************************************************)
ComponentFiles == Glob(audit_dir, <<"components", "*", "*">>)

FilesInState(state) ==
    {path \in ComponentFiles : audit_dir.files[path].audit_status.state = state}

\* C36: a summary written by update_summary counts the component audit files
\* under components/<type>/<name>.yaml: total is their number, completed,
\* in_progress and not_started are the numbers of them in each state, and
\* audit_progress is completed / total * 100, or 0 when there is none.
C36_SummaryReflectsFiles ==
    IsSome(audit_dir.summary) =>
        LET summary == Get(audit_dir.summary)
        IN /\ summary.status.total = Cardinality(ComponentFiles)
           /\ summary.status.completed = Cardinality(FilesInState("Completed"))
           /\ summary.status.in_progress = Cardinality(FilesInState("In Progress"))
           /\ summary.status.not_started = Cardinality(FilesInState("Not Started"))
           /\ summary.audit_progress =
                  IF ComponentFiles = {}
                  THEN [num |-> 0, den |-> 1]
                  ELSE [num |-> Cardinality(FilesInState("Completed")) * 100,
                        den |-> Cardinality(ComponentFiles)]

\* C36, what the code does: the summary lists no component at all, whatever
\* the component files are.
C36_SummaryAlwaysEmpty ==
    IsSome(audit_dir.summary) =>
        /\ Get(audit_dir.summary).status =
               [not_started |-> 0, in_progress |-> 0, completed |-> 0, total |-> 0]
        /\ Get(audit_dir.summary).audit_progress = [num |-> 0, den |-> 1]
        /\ Get(audit_dir.summary).priority_issues = <<>>

\* C36, the case reached: two component files, both completed, one with a
\* High issue, and a summary that update_summary has written.
C36_Reached_CompletedNotCounted ==
    /\ IsSome(audit_dir.summary)
    /\ Cardinality(FilesInState("Completed")) = 2
    /\ \E path \in ComponentFiles :
          /\ audit_dir.files[path].findings.issues # <<>>
          /\ IsPriority(audit_dir.files[path].findings.issues[1].severity)
    /\ Get(audit_dir.summary).status.total = 0

(***************************************************************************)
(* Totality of the classifier.                                             *)
(***************************************************************************)
FloatResult == Get(classification).result

\* C35: determine_optimization_mode returns for every threshold triple: it
\* raises nothing, and its result is a mode of Modes with a level in 0..100.
C35_Total ==
    IsSome(classification) =>
        /\ FloatResult.raised = ""
        /\ Get(FloatResult.value).mode \in Modes
        /\ Get(FloatResult.value).level \in 0..100

\* C35, the part that holds: no call divides by zero, and on a triple of
\* finite thresholds, equal or misordered ones included, the call returns
\* what Classify computes, a mode of Modes with a level in 0..100.
C35_FiniteTotal ==
    IsSome(classification) =>
        /\ FloatResult.raised # "ZeroDivisionError"
        /\ FiniteThresholds(thresholds) =>
               /\ FloatResult.raised = ""
               /\ Get(FloatResult.value) =
                      Classify([moderate |-> thresholds.moderate.num,
                                adaptive |-> thresholds.adaptive.num,
                                ultra |-> thresholds.ultra.num],
                               Get(classification).count)
               /\ Get(FloatResult.value).mode \in Modes
               /\ Get(FloatResult.value).level \in 0..100

\* C35, the case reached: --ultra-threshold nan and a count above the
\* adaptive threshold: int() of a nan raises ValueError.
C35_Reached_NaNRaises ==
    /\ IsSome(classification)
    /\ thresholds = [moderate |-> F(300), adaptive |-> F(375), ultra |-> NaN]
    /\ Get(classification).count = 400
    /\ FloatResult = Raises("ValueError")

(***************************************************************************)
(* The two observer classes.                                               *)
(***************************************************************************)
\* C37: from every state, on the same poll result and write outcome, a step
\* of the toolkit class is a step of the legacy class and the reverse: the
\* same next loop state, the same signal built and the same files.
C37_SameSteps ==
    [][/\ RunObserver <=> toolkit_RunObserver
       /\ WhileTest <=> toolkit_WhileTest
       /\ \A count \in SampleCounts :
              PollSucceeds(count) <=> toolkit_PollSucceeds(count)
       /\ PollFails <=> toolkit_PollFails
       /\ Generate <=> toolkit_Generate
       /\ WriteBackup <=> toolkit_WriteBackup
       /\ WriteOpen <=> toolkit_WriteOpen
       /\ WriteDump <=> toolkit_WriteDump
       /\ Analysis <=> toolkit_Analysis
       /\ Sleep <=> toolkit_Sleep
       /\ Stop <=> toolkit_Stop]_vars

\* C37 witness: in adaptive mode with a sample of 376 to decide on, both
\* classes are about to build the same mode-change signal to ultra, with a
\* control file of an earlier signal in place.
C37_Witness ==
    /\ pc = "generate"
    /\ current_mode = "adaptive"
    /\ Get(cardinality_data).cardinality_count = 376
    /\ IsSome(control_file)
    /\ toolkit_ShouldEmit(376)
    /\ toolkit_BuildSignal(376) = BuildSignal(376)
    /\ toolkit_BuildSignal(376).mode = "ultra"
    /\ toolkit_BuildSignal(376).reason.kind # "Cardinality update"

====
